---- MODULE Spec2Model ----
(***************************************************************************)
(* Verification development for the DVR control-plane core of neutron:     *)
(*   - the DVR MAC allocation authority (neutron/db/dvr_mac_db.py),        *)
(*   - the L2-population mechanism driver                                  *)
(*     (neutron/plugins/ml2/drivers/l2pop/mech_driver.py).                 *)
(* Each subsystem has its own specifications (SpecMac; SpecL2pop and       *)
(* SpecL2popDelete) over the shared variable tuple; the variables of the   *)
(* other subsystem stay at their initial value.                            *)
(***************************************************************************)
EXTENDS Integers, Sequences, FiniteSets, TLC

(***************************************************************************)
(* Bounds of the model.                                                    *)
(***************************************************************************)
NumCallers == 2     \* concurrent RPC workers calling the MAC authority
MaxRetries == 2     \* cfg.CONF.mac_generation_retries

Callers == 1..NumCallers
(* The host names a caller can pass: the empty name and two hosts. *)
EmptyHost == ""
Hosts == {EmptyHost, "host1", "host2"}
(* The addresses get_random_mac can draw from dvr_base_mac. *)
Macs == {"fa:16:3f:00:00:01", "fa:16:3f:00:00:02"}
(* No address: the None a call for the empty host returns. *)
NoMac == ""

(***************************************************************************)
(* State of the MAC authority.                                             *)
(*   dvr_host_macs  the table, a set of rows [host, mac_address]           *)
(*   pc             position of each caller inside                         *)
(*                  get_dvr_mac_address_by_host: "idle" (not in a call),   *)
(*                  "create" (in the retry loop), "notify" (row inserted,  *)
(*                  list not yet read and broadcast)                       *)
(*   host           the host argument of the caller's current call         *)
(*   attempt        insert attempts made by the current call               *)
(*   mac_address    the MAC of the binding the current call inserted       *)
(*   completed      the outcome of the call that completed in the last     *)
(*                  step: caller, host, outcome ("none" when the last step *)
(*                  completed no call, "returned",                         *)
(*                  "raised" for MacAddressGenerationFailure), result (the *)
(*                  MAC returned, NoMac for None), the attempts it made,   *)
(*                  whether it inserted a row, and the lists it broadcast  *)
(*                  with dvr_mac_address_update                            *)
(* History variables, observing the calls without influencing them:        *)
(*   returned       per host, the MAC last returned to a caller since the  *)
(*                  last delete of the host: any |-> by any return,        *)
(*                  live |-> by a return with no delete of the host since  *)
(*                  the returning call inserted or found the row           *)
(*   obs            per caller in a call: inserted, whether the call       *)
(*                  inserted a row; deleted_since, whether the host was    *)
(*                  deleted after that insert; rival, whether a call       *)
(*                  concurrent with this one inserted a row for the same   *)
(*                  host; rival_live, the same with no delete of the host  *)
(*                  since the rival's insert                               *)
(***************************************************************************)
VARIABLES dvr_host_macs, pc, host, attempt, mac_address, completed,
          returned, obs

macVars == <<dvr_host_macs, pc, host, attempt, mac_address, completed,
             returned, obs>>

(***************************************************************************)
(* State of the L2-population mechanism driver and of the inventory it     *)
(* queries.                                                                *)
(*   ports              the port table: per port id its attributes         *)
(*                      (status "DELETED" once the delete committed)       *)
(*   dvr_bindings       DVRPortBinding status of the DVR-interface port    *)
(*                      per host                                           *)
(*   deleting           per port, the binding hosts for which              *)
(*                      delete_port_precommit has run and                  *)
(*                      delete_port_postcommit has not                     *)
(*   migrated_ports     self.migrated_ports: port id -> original port      *)
(*   remove_fdb_entries self.remove_fdb_entries: port id -> agent host ->  *)
(*                      payload                                            *)
(*   call               the handler that ran last: its name, its port and, *)
(*                      for the DVR-interface port, the host of            *)
(*                      context.binding                                    *)
(*   fdb_notifications  the calls that handler made on                     *)
(*                      L2populationAgentNotify, in order                  *)
(***************************************************************************)
VARIABLES ports, dvr_bindings, deleting, migrated_ports, remove_fdb_entries,
          call, fdb_notifications

l2Vars == <<ports, dvr_bindings, deleting, migrated_ports,
            remove_fdb_entries, call, fdb_notifications>>

(***************************************************************************)
(* State of the OVS DVR agent of one host and of its two bridges.          *)
(*   enable_distributed_routing  self.enable_distributed_routing           *)
(*   dvr_mac_address      self.dvr_mac_address (NoMac for None)            *)
(*   registered_dvr_macs  self.registered_dvr_macs                         *)
(*   local_dvr_map        self.local_dvr_map: subnet id ->                 *)
(*                        LocalDVRSubnetMapping                            *)
(*   local_ports          self.local_ports: vif id -> OVSPort              *)
(*   int_br, tun_br       the flows installed on the integration bridge    *)
(*                        and on the tunnel bridge                         *)
(*   agent_call           the agent method that ran last, its argument and *)
(*                        whether the call before it was the same          *)
(*   flow_ops             the bridge operations that method performed, in  *)
(*                        order                                            *)
(*   raised               whether that method ended with an exception      *)
(***************************************************************************)
VARIABLES enable_distributed_routing, dvr_mac_address, registered_dvr_macs,
          local_dvr_map, local_ports, int_br, tun_br, agent_call, flow_ops,
          raised

agentVars == <<enable_distributed_routing, dvr_mac_address,
               registered_dvr_macs, local_dvr_map, local_ports, int_br,
               tun_br, agent_call, flow_ops, raised>>

vars == <<dvr_host_macs, pc, host, attempt, mac_address, completed,
          returned, obs, ports, dvr_bindings, deleting, migrated_ports,
          remove_fdb_entries, call, fdb_notifications,
          enable_distributed_routing, dvr_mac_address, registered_dvr_macs,
          local_dvr_map, local_ports, int_br, tun_br, agent_call, flow_ops,
          raised>>

Row(h, m) == [host |-> h, mac_address |-> m]

HostRows(h) == {r \in dvr_host_macs : r.host = h}

InFlight(c) == pc[c] # "idle"

InitObs == [inserted |-> FALSE, deleted_since |-> FALSE,
            rival |-> FALSE, rival_live |-> FALSE]

NoCall == [caller |-> 0, host |-> EmptyHost, outcome |-> "none",
           result |-> NoMac, attempts |-> 0, inserted |-> FALSE,
           deleted_since |-> FALSE, broadcasts |-> <<>>]

InitMac ==
    /\ dvr_host_macs = {}
    /\ pc = [c \in Callers |-> "idle"]
    /\ host = [c \in Callers |-> EmptyHost]
    /\ attempt = [c \in Callers |-> 0]
    /\ mac_address = [c \in Callers |-> NoMac]
    /\ completed = NoCall
    /\ returned = [h \in Hosts |-> [any |-> NoMac, live |-> NoMac]]
    /\ obs = [c \in Callers |-> InitObs]

(***************************************************************************)
(* The table's constraints: host is the primary key, mac_address is        *)
(* unique.  An insert that breaks either raises DBDuplicateEntry.          *)
(***************************************************************************)
DuplicateEntryMacOnly(table, h, m) ==
    \E r \in table : r.mac_address = m

DuplicateEntry(table, h, m) ==
    \E r \in table : r.host = h \/ r.mac_address = m

(* for attempt in reversed(range(max_retries)): the number of iterations *)
RetryRangeShort == MaxRetries - 1

RetryRange == MaxRetries

(* get_dvr_mac_address_list: session.query(...).all() *)
get_dvr_mac_address_list_others(c) == dvr_host_macs \ HostRows(host[c])

get_dvr_mac_address_list(c) == dvr_host_macs

(* query.filter(host == host).one(): the row, or NoResultFound *)
FoundNever(h) == FALSE

Found(h) == HostRows(h) # {}

FoundMac(h) == (CHOOSE r \in HostRows(h) : TRUE).mac_address

(* The record of a call of c for h that ends now.  The locals of the call
   (attempt, mac_address) go out of scope. *)
Complete(c, h, outcome, m, attempts, broadcasts) ==
    /\ completed' = [caller |-> c, host |-> h, outcome |-> outcome,
                     result |-> m, attempts |-> attempts,
                     inserted |-> obs[c].inserted,
                     deleted_since |-> obs[c].deleted_since,
                     broadcasts |-> broadcasts]
    /\ pc' = [pc EXCEPT ![c] = "idle"]
    /\ host' = [host EXCEPT ![c] = EmptyHost]
    /\ attempt' = [attempt EXCEPT ![c] = 0]
    /\ mac_address' = [mac_address EXCEPT ![c] = NoMac]
    /\ obs' = [obs EXCEPT ![c] = InitObs]

Return(c, h, m, attempts, broadcasts, live) ==
    /\ Complete(c, h, "returned", m, attempts, broadcasts)
    /\ returned' = [returned EXCEPT ![h] =
                      [any |-> m, live |-> IF live THEN m ELSE @.live]]

(***************************************************************************)
(* get_dvr_mac_address_by_host(context, host) up to the end of             *)
(* _get_dvr_mac_address_by_host.  An empty host returns None at once.  The *)
(* row is returned when it exists; DVRMacAddressNotFound sends the caller  *)
(* into _create_dvr_mac_address.                                           *)
(***************************************************************************)
Call(c, h) ==
    /\ pc[c] = "idle"
    /\ IF h = EmptyHost
       THEN /\ Complete(c, h, "returned", NoMac, 0, <<>>)
            /\ UNCHANGED returned
       ELSE IF Found(h)
       THEN Return(c, h, FoundMac(h), 0, <<>>, TRUE)
       ELSE /\ pc' = [pc EXCEPT ![c] = "create"]
            /\ host' = [host EXCEPT ![c] = h]
            /\ obs' = [obs EXCEPT ![c] =
                         [inserted |-> FALSE, deleted_since |-> FALSE,
                          rival |-> \E d \in Callers \ {c} :
                                       host[d] = h /\ obs[d].inserted,
                          rival_live |-> \E d \in Callers \ {c} :
                                       /\ host[d] = h /\ obs[d].inserted
                                       /\ ~obs[d].deleted_since]]
            /\ completed' = NoCall
            /\ UNCHANGED <<attempt, mac_address, returned>>
    /\ UNCHANGED dvr_host_macs
    /\ UNCHANGED <<l2Vars, agentVars>>

(***************************************************************************)
(* One iteration of the retry loop of _create_dvr_mac_address: a random    *)
(* MAC is generated and the row inserted in one transaction.  A duplicate  *)
(* entry is swallowed and the loop goes on; once the range is exhausted    *)
(* the loop ends and MacAddressGenerationFailure is raised.                *)
(***************************************************************************)
InsertAttempt(c, m) ==
    /\ pc[c] = "create"
    /\ attempt[c] < RetryRange
    /\ IF DuplicateEntry(dvr_host_macs, host[c], m)
       THEN /\ IF attempt[c] + 1 >= RetryRange
               THEN Complete(c, host[c], "raised", NoMac, attempt[c] + 1,
                             <<>>)
               ELSE /\ attempt' = [attempt EXCEPT ![c] = @ + 1]
                    /\ completed' = NoCall
                    /\ UNCHANGED <<pc, host, mac_address, obs>>
            /\ UNCHANGED dvr_host_macs
       ELSE /\ dvr_host_macs' = dvr_host_macs \cup {Row(host[c], m)}
            /\ attempt' = [attempt EXCEPT ![c] = @ + 1]
            /\ mac_address' = [mac_address EXCEPT ![c] = m]
            /\ pc' = [pc EXCEPT ![c] = "notify"]
            /\ obs' = [d \in Callers |->
                         IF d = c THEN [obs[d] EXCEPT !.inserted = TRUE]
                         ELSE IF InFlight(d) /\ host[d] = host[c]
                         THEN [obs[d] EXCEPT !.rival = TRUE,
                                             !.rival_live = TRUE]
                         ELSE obs[d]]
            /\ completed' = NoCall
            /\ UNCHANGED host
    /\ UNCHANGED returned
    /\ UNCHANGED <<l2Vars, agentVars>>

(***************************************************************************)
(* After the insert committed: read the full list, broadcast it and        *)
(* return the binding that was created.                                    *)
(***************************************************************************)
NotifyAndReturn(c) ==
    /\ pc[c] = "notify"
    /\ Return(c, host[c], mac_address[c], attempt[c],
              <<get_dvr_mac_address_list(c)>>, ~obs[c].deleted_since)
    /\ UNCHANGED dvr_host_macs
    /\ UNCHANGED <<l2Vars, agentVars>>

(***************************************************************************)
(* delete_dvr_mac_address(context, host): removes the host's rows.         *)
(***************************************************************************)
delete_dvr_mac_address(h) ==
    /\ dvr_host_macs' = dvr_host_macs \ HostRows(h)
    /\ returned' = [returned EXCEPT ![h] = [any |-> NoMac, live |-> NoMac]]
    /\ obs' = [c \in Callers |->
                 IF host[c] = h
                 THEN [obs[c] EXCEPT !.deleted_since = @ \/ obs[c].inserted,
                                     !.rival_live = FALSE]
                 ELSE obs[c]]
    /\ completed' = NoCall
    /\ UNCHANGED <<pc, host, attempt, mac_address>>
    /\ UNCHANGED <<l2Vars, agentVars>>

NextMac ==
    \/ \E c \in Callers, h \in Hosts : Call(c, h)
    \/ \E c \in Callers, m \in Macs : InsertAttempt(c, m)
    \/ \E c \in Callers : NotifyAndReturn(c)
    \/ \E h \in Hosts \ {EmptyHost} : delete_dvr_mac_address(h)

(***************************************************************************)
(* The L2-population mechanism driver: constants and inventory.            *)
(***************************************************************************)
NumFixedIps == 2    \* size of the pool a port's fixed IPs are drawn from

PORT_STATUS_ACTIVE == "ACTIVE"
PORT_STATUS_DOWN == "DOWN"
PORT_STATUS_BUILD == "BUILD"
DELETED == "DELETED"
DEVICE_OWNER_DVR_INTERFACE == "network:router_interface_distributed"
DEVICE_OWNER_COMPUTE == "compute:nova"
FLOODING_ENTRY == <<"00:00:00:00:00:00", "0.0.0.0">>
None == [none |-> TRUE]
NoHost == ""
EmptyMap == [x \in {} |-> x]

IpNames == <<"10.0.0.5", "10.0.0.6", "10.0.0.7", "10.0.0.8">>

(* The fixed_ips a port can be given: the non-empty prefixes of the pool. *)
FixedIpChoices == {SubSeq(IpNames, 1, n) : n \in 1..NumFixedIps}

(* Three ports on one network: p1 and p2 are compute ports, p3 is a
   DVR-interface port with one DVRPortBinding per DVR host. *)
PortIds == {"p1", "p2", "p3"}
NetworkId == "net1"
DvrPort == "p3"
DvrHosts == {"h1", "h2"}
mac_of == [p \in PortIds |->
             CASE p = "p1" -> "fa:16:3e:00:00:01"
               [] p = "p2" -> "fa:16:3e:00:00:02"
               [] p = "p3" -> "fa:16:3e:00:00:03"]
device_owner_of == [p \in PortIds |->
             IF p = DvrPort THEN DEVICE_OWNER_DVR_INTERFACE
             ELSE DEVICE_OWNER_COMPUTE]

(* The hosts a port can be bound to and what the agent registry and the
   binding hold for each:
     ""   no host
     h1   agent with tunnel IP and vxlan, up for longer than agent_boot_time
     h2   agent with tunnel IP and vxlan, restarted less than
          agent_boot_time ago
     h3   agent without a tunneling_ip in its configuration
     h4   no agent registered
     h5   agent as h1, but a binding on this host has no bound segment
     h6   agent whose tunnel_types do not include the network's type *)
PortHosts == {NoHost, "h1", "h2", "h3", "h4", "h5", "h6"}
AgentHosts == {"h1", "h2", "h3", "h5", "h6"}

get_agent_by_host(h) ==
    IF h \in AgentHosts
    THEN [host |-> h,
          tunneling_ip |-> CASE h = "h1" -> "172.16.0.1"
                             [] h = "h2" -> "172.16.0.2"
                             [] h = "h3" -> ""
                             [] h = "h5" -> "172.16.0.5"
                             [] h = "h6" -> "172.16.0.6",
          tunnel_types |-> IF h = "h6" THEN {"gre"} ELSE {"vxlan"},
          uptime |-> IF h = "h2" THEN "below_agent_boot_time"
                     ELSE "above_agent_boot_time"]
    ELSE None

get_agent_ip(agent) == agent.tunneling_ip

get_agent_tunnel_types(agent) == agent.tunnel_types

(* get_agent_uptime(agent) < cfg.CONF.l2pop.agent_boot_time *)
UptimeBelowBootTime(agent) == agent.uptime = "below_agent_boot_time"

(* context.bound_segment of a binding on host h *)
BoundSegment(h) ==
    IF h \in {NoHost, "h4", "h5"} THEN None
    ELSE [network_type |-> "vxlan", segmentation_id |-> 1001]

Port(p, status, h, ips) ==
    [id |-> p, mac_address |-> mac_of[p],
     device_owner |-> device_owner_of[p], network_id |-> NetworkId,
     status |-> status, binding_host_id |-> h, fixed_ips |-> ips]

DeletedPort(p) == Port(p, DELETED, NoHost, <<>>)

(* generate_dvr_port_status: ACTIVE if a binding is ACTIVE, else DOWN if one
   is DOWN, else BUILD *)
generate_dvr_port_status(bindings) ==
    IF \E h \in DOMAIN bindings : bindings[h] = PORT_STATUS_ACTIVE
    THEN PORT_STATUS_ACTIVE
    ELSE IF \E h \in DOMAIN bindings : bindings[h] = PORT_STATUS_DOWN
    THEN PORT_STATUS_DOWN
    ELSE PORT_STATUS_BUILD

InitL2pop ==
    /\ dvr_bindings = [h \in DvrHosts |-> PORT_STATUS_DOWN]
    /\ ports = [p \in PortIds |->
                  CASE p = "p1" -> Port(p, PORT_STATUS_DOWN, NoHost,
                                        SubSeq(IpNames, 1, NumFixedIps))
                    [] p = "p2" -> Port(p, PORT_STATUS_DOWN, "h2",
                                        <<"10.0.0.20">>)
                    [] p = "p3" -> Port(p, PORT_STATUS_DOWN, NoHost,
                                        <<"10.0.0.1">>)]
    /\ deleting = [p \in PortIds |-> {}]
    /\ migrated_ports = EmptyMap
    /\ remove_fdb_entries = EmptyMap
    /\ call = [op |-> "initialize", port |-> "", host |-> NoHost]
    /\ fdb_notifications = <<>>

(***************************************************************************)
(* The queries of the l2pop DB mixin over the inventory db = [ports, dvr]. *)
(***************************************************************************)
ActiveNonDvrPorts(db, network_id) ==
    {p \in PortIds :
        /\ db.ports[p].device_owner # DEVICE_OWNER_DVR_INTERFACE
        /\ db.ports[p].network_id = network_id
        /\ db.ports[p].status = PORT_STATUS_ACTIVE}

ActiveDvrBindings(db, network_id) ==
    {b \in {DvrPort} \X DvrHosts :
        /\ db.ports[b[1]].status # DELETED
        /\ db.ports[b[1]].network_id = network_id
        /\ db.dvr[b[2]] = PORT_STATUS_ACTIVE}

get_agent_network_active_port_count(db, agent_host, network_id) ==
    Cardinality({p \in ActiveNonDvrPorts(db, network_id) :
                    db.ports[p].binding_host_id = agent_host})
    + Cardinality({b \in ActiveDvrBindings(db, network_id) :
                    b[2] = agent_host})

(* (binding, agent) pairs; the agent is joined on the binding's host *)
get_nondvr_network_ports(db, network_id) ==
    {[binding |-> [port |-> db.ports[p]],
      agent |-> get_agent_by_host(db.ports[p].binding_host_id)] :
        p \in {q \in ActiveNonDvrPorts(db, network_id) :
                  db.ports[q].binding_host_id \in AgentHosts}}

get_dvr_network_ports(db, network_id) ==
    {[binding |-> [port |-> db.ports[b[1]]],
      agent |-> get_agent_by_host(b[2])] :
        b \in {c \in ActiveDvrBindings(db, network_id) :
                  c[2] \in AgentHosts}}

(* The orders in which a query can return the rows of S. *)
Orderings(S) ==
    {s \in [1..Cardinality(S) -> S] :
        \A i \in DOMAIN s, j \in DOMAIN s : i # j => s[i] # s[j]}

(***************************************************************************)
(* The driver's helpers.                                                   *)
(***************************************************************************)
_get_port_fdb_entries_first(port) ==
    <<<<port.mac_address, port.device_owner, port.fixed_ips[1]>>>>

_get_port_fdb_entries(port) ==
    [i \in 1..Len(port.fixed_ips) |->
        <<port.mac_address, port.device_owner, port.fixed_ips[i]>>]

_get_agent_host(context, port) ==
    IF port.device_owner = DEVICE_OWNER_DVR_INTERFACE
    THEN context.binding.host
    ELSE port.binding_host_id

_get_port_infos(context, port) ==
    LET agent_host == _get_agent_host(context, port)
        agent == get_agent_by_host(agent_host)
        agent_ip == get_agent_ip(agent)
        segment == context.bound_segment
    IN  IF agent_host = NoHost THEN None
        ELSE IF agent = None THEN None
        ELSE IF agent_ip = "" THEN None
        ELSE IF segment = None THEN None
        ELSE IF segment.network_type \notin get_agent_tunnel_types(agent)
        THEN None
        ELSE [agent |-> agent, agent_host |-> agent_host,
              agent_ip |-> agent_ip, segment |-> segment,
              fdb_entries |-> _get_port_fdb_entries(port)]

FdbEntries(network_id, segment, agent_ports) ==
    [network_id |-> network_id,
     segment_id |-> segment.segmentation_id,
     network_type |-> segment.network_type,
     ports |-> agent_ports]

Notification(method, fdb_entries, target) ==
    [method |-> method, fdb_entries |-> fdb_entries, host |-> target]

GetOrEmpty(agent_ports, ip) ==
    IF ip \in DOMAIN agent_ports THEN agent_ports[ip]
    ELSE <<>>

(* ports.get(ip, [FLOODING_ENTRY]) *)
GetOrFlooding(agent_ports, ip) ==
    IF ip \in DOMAIN agent_ports THEN agent_ports[ip]
    ELSE <<FLOODING_ENTRY>>

(* The two loops of _update_port_up that fill the bootstrap payload from
   the rows of the other agents, in the order the queries returned them. *)
RECURSIVE BootstrapPorts(_, _, _, _, _)
BootstrapPorts(rows, i, agent_host, with_entries, agent_ports) ==
    IF i > Len(rows) THEN agent_ports
    ELSE LET agent == rows[i].agent
             ip == get_agent_ip(agent)
         IN  IF agent.host = agent_host \/ ip = ""
             THEN BootstrapPorts(rows, i + 1, agent_host, with_entries,
                                 agent_ports)
             ELSE BootstrapPorts(rows, i + 1, agent_host, with_entries,
                     (ip :> (GetOrFlooding(agent_ports, ip) \o
                             (IF with_entries
                              THEN _get_port_fdb_entries(rows[i].binding.port)
                              ELSE <<>>)))
                     @@ agent_ports)

FirstPortOnly(agent_active_ports, agent) ==
    agent_active_ports = 1

(* agent_active_ports == 1 or get_agent_uptime(agent) < agent_boot_time *)
FirstPortOrRestarted(agent_active_ports, agent) ==
    agent_active_ports = 1 \/ UptimeBelowBootTime(agent)

(***************************************************************************)
(* _update_port_up(context): the notifications it sends, in order.         *)
(* nondvr_rows and dvr_rows are the results of get_nondvr_network_ports    *)
(* and get_dvr_network_ports.                                              *)
(***************************************************************************)
_update_port_up(db, context, nondvr_rows, dvr_rows) ==
    LET port_context == context.current
        port_infos == _get_port_infos(context, port_context)
    IN  IF port_infos = None THEN <<>>
        ELSE
        LET agent_host == port_infos.agent_host
            agent_ip == port_infos.agent_ip
            segment == port_infos.segment
            network_id == port_context.network_id
            agent_active_ports ==
                get_agent_network_active_port_count(db, agent_host,
                                                    network_id)
            first == FirstPortOrRestarted(agent_active_ports,
                                          port_infos.agent)
            agent_ports ==
                BootstrapPorts(dvr_rows, 1, agent_host, FALSE,
                    BootstrapPorts(nondvr_rows, 1, agent_host, TRUE,
                                   EmptyMap))
            own_entries ==
                (IF first THEN <<FLOODING_ENTRY>> ELSE <<>>) \o
                (IF port_context.device_owner # DEVICE_OWNER_DVR_INTERFACE
                 THEN port_infos.fdb_entries ELSE <<>>)
        IN  (IF first /\ DOMAIN agent_ports # {}
             THEN <<Notification("add_fdb_entries",
                        FdbEntries(network_id, segment, agent_ports),
                        agent_host)>>
             ELSE <<>>) \o
            <<Notification("add_fdb_entries",
                  FdbEntries(network_id, segment, agent_ip :> own_entries),
                  NoHost)>>

(***************************************************************************)
(* _update_port_down(context, port_context,                                *)
(*                   agent_active_ports_count_for_flooding): the payload,  *)
(* or None                                                                 *)
(***************************************************************************)
FloodingRemovedAtMost(agent_active_ports, agent_active_ports_count_for_flooding) ==
    agent_active_ports <= agent_active_ports_count_for_flooding

FloodingRemoved(agent_active_ports, agent_active_ports_count_for_flooding) ==
    agent_active_ports = agent_active_ports_count_for_flooding

_update_port_down_own_entries(db, context, port_context, agent_active_ports_count_for_flooding) ==
    LET port_infos == _get_port_infos(context, port_context)
    IN  IF port_infos = None THEN None
        ELSE
        LET network_id == port_context.network_id
            agent_active_ports ==
                get_agent_network_active_port_count(
                    db, port_infos.agent_host, network_id)
            entries ==
                (IF FloodingRemoved(agent_active_ports,
                                    agent_active_ports_count_for_flooding)
                 THEN <<FLOODING_ENTRY>> ELSE <<>>) \o
                _get_port_fdb_entries(port_context)
        IN  FdbEntries(network_id, port_infos.segment,
                       port_infos.agent_ip :> entries)

_update_port_down(db, context, port_context, agent_active_ports_count_for_flooding) ==
    LET port_infos == _get_port_infos(context, port_context)
    IN  IF port_infos = None THEN None
        ELSE
        LET network_id == port_context.network_id
            agent_active_ports ==
                get_agent_network_active_port_count(
                    db, port_infos.agent_host, network_id)
            entries ==
                (IF FloodingRemoved(agent_active_ports,
                                    agent_active_ports_count_for_flooding)
                 THEN <<FLOODING_ENTRY>> ELSE <<>>) \o
                (IF port_context.device_owner # DEVICE_OWNER_DVR_INTERFACE
                 THEN _get_port_fdb_entries(port_context) ELSE <<>>)
        IN  FdbEntries(network_id, port_infos.segment,
                       port_infos.agent_ip :> entries)

(***************************************************************************)
(* _get_diff_ips(orig, port): None, or the pair of difference sets         *)
(***************************************************************************)
IpSet(port) == {port.fixed_ips[i] : i \in DOMAIN port.fixed_ips}

_get_diff_ips_whole(orig, port) ==
    LET orig_chg_ips == IpSet(orig)
        port_chg_ips == IpSet(port) \ IpSet(orig)
    IN  IF orig_chg_ips # {} \/ port_chg_ips # {}
        THEN [orig_ips |-> orig_chg_ips, port_ips |-> port_chg_ips]
        ELSE None

_get_diff_ips(orig, port) ==
    LET orig_chg_ips == IpSet(orig) \ IpSet(port)
        port_chg_ips == IpSet(port) \ IpSet(orig)
    IN  IF orig_chg_ips # {} \/ port_chg_ips # {}
        THEN [orig_ips |-> orig_chg_ips, port_ips |-> port_chg_ips]
        ELSE None

_fixed_ips_changed_current(context, orig, port, diff_ips) ==
    LET port_infos == _get_port_infos(context, port)
    IN  IF port_infos = None THEN <<>>
        ELSE <<Notification("update_fdb_entries",
                 [chg_ip |->
                    [network_id |-> port.network_id,
                     agent_ip |-> port_infos.agent_ip,
                     before |-> {<<port.mac_address, port.device_owner, ip>> :
                                    ip \in diff_ips.orig_ips},
                     after |-> {<<port.mac_address, port.device_owner, ip>> :
                                    ip \in diff_ips.port_ips}]],
                 NoHost)>>

(***************************************************************************)
(* _fixed_ips_changed: the update_fdb_entries notification, if any.  The   *)
(* 'before' and 'after' lists are built by iterating a set; a key is       *)
(* present in the payload iff its set is not empty.                        *)
(***************************************************************************)
_fixed_ips_changed(context, orig, port, diff_ips) ==
    LET port_infos == _get_port_infos(context, orig)
    IN  IF port_infos = None THEN <<>>
        ELSE <<Notification("update_fdb_entries",
                 [chg_ip |->
                    [network_id |-> port.network_id,
                     agent_ip |-> port_infos.agent_ip,
                     before |-> {<<port.mac_address, port.device_owner, ip>> :
                                    ip \in diff_ips.orig_ips},
                     after |-> {<<port.mac_address, port.device_owner, ip>> :
                                    ip \in diff_ips.port_ips}]],
                 NoHost)>>

PopKeeps(dict, key) == dict

(* dict.pop(key, default): the dict without the key *)
Pop(dict, key) == [k \in (DOMAIN dict) \ {key} |-> dict[k]]

RecordsMigrationAgain(migrated, orig, port) ==
    /\ port.binding_host_id # orig.binding_host_id
    /\ port.status = PORT_STATUS_ACTIVE

(* whether the migration branch records the original port *)
RecordsMigration(migrated, orig, port) ==
    /\ port.binding_host_id # orig.binding_host_id
    /\ port.status = PORT_STATUS_ACTIVE
    /\ orig.id \notin DOMAIN migrated

(***************************************************************************)
(* update_port_postcommit(context): the notifications sent and the new     *)
(* value of self.migrated_ports.                                           *)
(***************************************************************************)
update_port_postcommit(db, migrated, context, nondvr_rows, dvr_rows) ==
    LET port == context.current
        orig == context.original
        diff_ips == _get_diff_ips(orig, port)
        chg == IF diff_ips # None
               THEN _fixed_ips_changed(context, orig, port, diff_ips)
               ELSE <<>>
        remove(payload) ==
            <<Notification("remove_fdb_entries", payload, NoHost)>>
    IN  IF RecordsMigration(migrated, orig, port)
        THEN [sent |-> chg, migrated_ports |-> (orig.id :> orig) @@ migrated]
        ELSE IF port.device_owner = DEVICE_OWNER_DVR_INTERFACE
        THEN [sent |-> chg \o
                (IF context.binding.status = PORT_STATUS_ACTIVE
                 THEN _update_port_up(db, context, nondvr_rows, dvr_rows)
                 ELSE <<>>) \o
                (IF context.binding.status = PORT_STATUS_DOWN
                 THEN remove(_update_port_down(db, context, port, 0))
                 ELSE <<>>),
              migrated_ports |-> migrated]
        ELSE IF port.status # orig.status
        THEN IF port.status = PORT_STATUS_ACTIVE
             THEN [sent |-> chg \o _update_port_up(db, context, nondvr_rows,
                                                   dvr_rows),
                   migrated_ports |-> migrated]
             ELSE IF port.status = PORT_STATUS_DOWN
             THEN [sent |-> chg \o
                            remove(_update_port_down(db, context, port, 0)),
                   migrated_ports |-> migrated]
             ELSE IF port.status = PORT_STATUS_BUILD
             THEN [sent |-> chg \o
                      (IF port.id \in DOMAIN migrated
                       THEN remove(_update_port_down(db, context,
                                                     migrated[port.id], 0))
                       ELSE <<>>),
                   migrated_ports |-> Pop(migrated, port.id)]
             ELSE [sent |-> chg, migrated_ports |-> migrated]
        ELSE [sent |-> chg, migrated_ports |-> migrated]

(***************************************************************************)
(* delete_port_precommit(context): the new value of                        *)
(* self.remove_fdb_entries.                                                *)
(***************************************************************************)
PrecommitPayload(db, context, port) == _update_port_down(db, context, port, 1)

delete_port_precommit(db, removals, context) ==
    LET port == context.current
        agent_host == _get_agent_host(context, port)
        captured == IF port.id \in DOMAIN removals THEN removals[port.id]
                    ELSE EmptyMap
    IN  (port.id :> ((agent_host :> PrecommitPayload(db, context, port))
                     @@ captured))
        @@ removals

(***************************************************************************)
(* delete_port_postcommit(context): the notifications sent and the new     *)
(* value of self.remove_fdb_entries.  order is the order in which the      *)
(* captured agent hosts are iterated.                                      *)
(***************************************************************************)
PostcommitPayloadAnyHost(removals, port_id, agent_host) ==
    removals[port_id][CHOOSE h \in DOMAIN removals[port_id] : TRUE]

PostcommitPayload(removals, port_id, agent_host) ==
    removals[port_id][agent_host]

delete_port_postcommit(removals, context, order) ==
    LET port == context.current
    IN  IF port.id \in DOMAIN removals
        THEN [sent |-> [i \in DOMAIN order |->
                          Notification("remove_fdb_entries",
                              PostcommitPayload(removals, port.id, order[i]),
                              NoHost)],
              remove_fdb_entries |-> Pop(removals, port.id)]
        ELSE [sent |-> <<>>, remove_fdb_entries |-> removals]

CapturedHosts(removals, port_id) ==
    IF port_id \in DOMAIN removals THEN DOMAIN removals[port_id] ELSE {}

(***************************************************************************)
(* The operations of the plugin that reach the driver.                     *)
(***************************************************************************)
Inventory(new_ports, new_bindings) == [ports |-> new_ports, dvr |-> new_bindings]

(* A compute port is updated (by the API or by an agent's status report)
   and update_port_postcommit runs on the committed port. *)
PortUpdated(p, status, h, ips) ==
    /\ p # DvrPort
    /\ ports[p].status # DELETED
    /\ deleting[p] = {}
    /\ LET new == Port(p, status, h, ips)
           new_ports == [ports EXCEPT ![p] = new]
           db == Inventory(new_ports, dvr_bindings)
           context == [current |-> new, original |-> ports[p],
                       binding |-> [host |-> h, status |-> status],
                       bound_segment |-> BoundSegment(h)]
       IN  \E nondvr_rows \in Orderings(get_nondvr_network_ports(db, NetworkId)),
              dvr_rows \in Orderings(get_dvr_network_ports(db, NetworkId)) :
             LET r == update_port_postcommit(db, migrated_ports, context,
                                             nondvr_rows, dvr_rows)
             IN  /\ ports' = new_ports
                 /\ migrated_ports' = r.migrated_ports
                 /\ fdb_notifications' = r.sent
    /\ call' = [op |-> "update_port_postcommit", port |-> p, host |-> NoHost]
    /\ UNCHANGED <<dvr_bindings, deleting, remove_fdb_entries>>
    /\ UNCHANGED <<macVars, agentVars>>

(* The updates of the compute ports: p1 takes its fixed IPs from
   FixedIpChoices, p2 keeps its host and its fixed IPs. *)
UpdatePort(p, status, h, ips) ==
    /\ p = "p1" => ips \in FixedIpChoices
    /\ p = "p2" => (h = ports[p].binding_host_id /\ ips = ports[p].fixed_ips
                    /\ status # PORT_STATUS_BUILD)
    /\ PortUpdated(p, status, h, ips)

(* The DVR-interface port is updated: the status of its binding on host h
   and (by the API) its binding:host_id; update_port_postcommit runs with
   that binding in the context. *)
UpdateDvrPort(h, status, port_host) ==
    /\ ports[DvrPort].status # DELETED
    /\ deleting[DvrPort] = {}
    /\ LET new_bindings == [dvr_bindings EXCEPT ![h] = status]
           new == Port(DvrPort, generate_dvr_port_status(new_bindings),
                       port_host, ports[DvrPort].fixed_ips)
           new_ports == [ports EXCEPT ![DvrPort] = new]
           db == Inventory(new_ports, new_bindings)
           context == [current |-> new, original |-> ports[DvrPort],
                       binding |-> [host |-> h, status |-> status],
                       bound_segment |-> BoundSegment(h)]
       IN  \E nondvr_rows \in Orderings(get_nondvr_network_ports(db, NetworkId)),
              dvr_rows \in Orderings(get_dvr_network_ports(db, NetworkId)) :
             LET r == update_port_postcommit(db, migrated_ports, context,
                                             nondvr_rows, dvr_rows)
             IN  /\ ports' = new_ports
                 /\ dvr_bindings' = new_bindings
                 /\ migrated_ports' = r.migrated_ports
                 /\ fdb_notifications' = r.sent
    /\ call' = [op |-> "update_port_postcommit", port |-> DvrPort,
                host |-> h]
    /\ UNCHANGED <<deleting, remove_fdb_entries>>
    /\ UNCHANGED <<macVars, agentVars>>

(* The binding hosts a delete of p calls the driver for. *)
DeleteHosts(p) ==
    IF p = DvrPort THEN DvrHosts ELSE {ports[p].binding_host_id}

(* delete_port_precommit for the binding of p on host h, inside the
   transaction that deletes the port. *)
DeletePortPrecommit(p, h) ==
    /\ ports[p].status # DELETED
    /\ h \in DeleteHosts(p) \ deleting[p]
    /\ LET context == [current |-> ports[p], original |-> ports[p],
                       binding |-> [host |-> h,
                                    status |-> IF p = DvrPort
                                               THEN dvr_bindings[h]
                                               ELSE ports[p].status],
                       bound_segment |-> BoundSegment(h)]
       IN  remove_fdb_entries' =
               delete_port_precommit(Inventory(ports, dvr_bindings),
                                     remove_fdb_entries, context)
    /\ deleting' = [deleting EXCEPT ![p] = @ \cup {h}]
    /\ fdb_notifications' = <<>>
    /\ call' = [op |-> "delete_port_precommit", port |-> p,
                host |-> IF p = DvrPort THEN h ELSE NoHost]
    /\ UNCHANGED <<ports, dvr_bindings, migrated_ports>>
    /\ UNCHANGED <<macVars, agentVars>>

(* delete_port_postcommit for the binding of p on host h, once the
   transaction has committed. *)
DeletePortPostcommit(p, h) ==
    /\ h \in deleting[p]
    /\ ports[p].status # DELETED => deleting[p] = DeleteHosts(p)
    /\ LET context == [current |-> [id |-> p],
                       binding |-> [host |-> h]]
       IN  \E order \in Orderings(CapturedHosts(remove_fdb_entries, p)) :
             LET r == delete_port_postcommit(remove_fdb_entries, context,
                                             order)
             IN  /\ fdb_notifications' = r.sent
                 /\ remove_fdb_entries' = r.remove_fdb_entries
    /\ ports' = [ports EXCEPT ![p] = DeletedPort(p)]
    /\ dvr_bindings' = IF p = DvrPort
                       THEN [x \in DvrHosts |-> PORT_STATUS_DOWN]
                       ELSE dvr_bindings
    /\ deleting' = [deleting EXCEPT ![p] = @ \ {h}]
    /\ call' = [op |-> "delete_port_postcommit", port |-> p,
                host |-> IF p = DvrPort THEN h ELSE NoHost]
    /\ UNCHANGED migrated_ports
    /\ UNCHANGED <<macVars, agentVars>>

(***************************************************************************)
(* The OVS DVR agent: constants, bridges and flows.                        *)
(***************************************************************************)
MaxMacListLen == 2  \* longest DVR MAC list the controller delivers

OFPORT_INVALID == -1
LOCAL_SWITCHING == "LOCAL_SWITCHING"
CANARY_TABLE == "CANARY_TABLE"
DVR_TO_SRC_MAC == "DVR_TO_SRC_MAC"
DVR_PROCESS == "DVR_PROCESS"
DVR_NOT_LEARN == "DVR_NOT_LEARN"
LEARN_FROM_TUN == "LEARN_FROM_TUN"
PATCH_LV_TO_TUN == "PATCH_LV_TO_TUN"
DEFAULT_TABLE == "0"
DEVICE_OWNER_ROUTER_SNAT == "network:router_centralized_snat"

(* The constructor arguments of the agent. *)
AgentHost == "host1"
enable_tunneling == TRUE
patch_int_ofport == 1
patch_tun_ofport == 2

(* The DVR MAC of the agent's own host and those of the other hosts, as the
   controller hands them out. *)
AgentOwnMac == "fa:16:3f:00:00:01"
OtherDvrMacs == {"fa:16:3f:00:00:02", "fa:16:3f:00:00:03"}

(* The DVR MAC lists the controller delivers: lists of host/MAC entries. *)
MacEntry(m) == [host |-> m, mac_address |-> m]
MacLists ==
    UNION {[1..n -> {MacEntry(m) : m \in {AgentOwnMac} \cup OtherDvrMacs}] :
             n \in 0..MaxMacListLen}

(* plugin_rpc.get_dvr_mac_address_by_host: the details of the agent's host,
   or an exception. *)
RpcFailure == [exception |-> "get_dvr_mac_address_by_host"]
OwnMacDetails == [host |-> AgentHost, mac_address |-> AgentOwnMac]

(* A call on a bridge. *)
AddFlow(bridge, table, priority, match, actions) ==
    [bridge |-> bridge, op |-> "add_flow", table |-> table,
     priority |-> priority, match |-> match, actions |-> actions]

DeleteFlows(bridge, table, match) ==
    [bridge |-> bridge, op |-> "delete_flows", table |-> table,
     match |-> match]

RemoveAllFlows(bridge) == [bridge |-> bridge, op |-> "remove_all_flows"]

(* The flow an add_flow call installs. *)
Flow(o) == [table |-> o.table, priority |-> o.priority, match |-> o.match,
            actions |-> o.actions]

(* add_flow replaces a flow of the same table, priority and match;
   delete_flows removes every flow of the table whose match has the given
   fields; both are harmless when repeated. *)
add_flow(flows, o) ==
    {g \in flows : ~(/\ g.table = o.table
                     /\ g.priority = o.priority
                     /\ g.match = o.match)} \cup {Flow(o)}

delete_flows(flows, o) ==
    {g \in flows : ~(/\ g.table = o.table
                     /\ \A k \in DOMAIN o.match :
                           k \in DOMAIN g.match /\ g.match[k] = o.match[k])}

(* The flows of a bridge once the calls of ops made on it have run. *)
RECURSIVE Replay(_, _, _)
Replay(flows, ops, bridge) ==
    IF ops = <<>> THEN flows
    ELSE LET o == Head(ops)
             next == IF o.bridge # bridge THEN flows
                     ELSE IF o.op = "add_flow" THEN add_flow(flows, o)
                     ELSE IF o.op = "delete_flows" THEN delete_flows(flows, o)
                     ELSE {}
         IN  Replay(next, Tail(ops), bridge)

(* The order in which a set or the keys of a dict are iterated: a function
   of the contents. *)
IterationOrder(S) == CHOOSE o \in Orderings(S) : TRUE

(* The two flows of another host's DVR MAC. *)
ClassificationFlow(mac) ==
    AddFlow("int_br", LOCAL_SWITCHING, 2,
            [in_port |-> patch_tun_ofport, dl_src |-> mac],
            <<"resubmit", DVR_TO_SRC_MAC>>)

NotLearnFlow(mac) ==
    AddFlow("tun_br", DVR_NOT_LEARN, 1, [dl_src |-> mac],
            <<"output", <<patch_int_ofport>>>>)

(* The attributes of the agent and the outcome of one of its methods. *)
AgentSelf ==
    [enable_distributed_routing |-> enable_distributed_routing,
     dvr_mac_address |-> dvr_mac_address,
     registered_dvr_macs |-> registered_dvr_macs,
     local_dvr_map |-> local_dvr_map,
     local_ports |-> local_ports]

Outcome(self, ops, exception) ==
    [self |-> self, ops |-> ops, raised |-> exception]

DisabledNever(self) == FALSE

(* the two tests every method of the agent starts with *)
Disabled(self) == ~enable_tunneling \/ ~self.enable_distributed_routing

InitAgent ==
    /\ enable_distributed_routing = TRUE
    /\ dvr_mac_address = NoMac
    /\ registered_dvr_macs = {}
    /\ local_dvr_map = EmptyMap
    /\ local_ports = EmptyMap
    /\ int_br = {}
    /\ tun_br = {}
    /\ agent_call = [op |-> "__init__", arg |-> <<>>, repeated |-> FALSE]
    /\ flow_ops = <<>>
    /\ raised = FALSE

(***************************************************************************)
(* setup_dvr_flows_on_integ_tun_br(): details is what                      *)
(* get_dvr_mac_address_by_host answered, dvr_macs what                     *)
(* get_dvr_mac_address_list answered.                                      *)
(***************************************************************************)
RECURSIVE SetupMacFlows(_, _, _)
SetupMacFlows(dvr_macs, i, own) ==
    IF i > Len(dvr_macs) THEN <<>>
    ELSE (IF dvr_macs[i].mac_address = own THEN <<>>
          ELSE <<ClassificationFlow(dvr_macs[i].mac_address),
                 NotLearnFlow(dvr_macs[i].mac_address)>>)
         \o SetupMacFlows(dvr_macs, i + 1, own)

OtherMacs(dvr_macs, own) ==
    {dvr_macs[i].mac_address : i \in DOMAIN dvr_macs} \ {own}

setup_dvr_flows_on_integ_tun_br(self, details, dvr_macs) ==
    IF Disabled(self)
    THEN Outcome(self, <<>>, FALSE)
    ELSE LET fresh == [self EXCEPT !.dvr_mac_address = NoMac,
                                   !.local_dvr_map = EmptyMap,
                                   !.local_ports = EmptyMap,
                                   !.registered_dvr_macs = {}]
         IN  IF details = RpcFailure
             THEN Outcome([fresh EXCEPT !.enable_distributed_routing = FALSE],
                          <<AddFlow("int_br", LOCAL_SWITCHING, 1, EmptyMap,
                                    <<"normal">>)>>,
                          FALSE)
             ELSE LET own == details.mac_address
                  IN  Outcome(
                        [fresh EXCEPT !.dvr_mac_address = own,
                                      !.registered_dvr_macs =
                                          OtherMacs(dvr_macs, own)],
                        <<RemoveAllFlows("int_br"),
                          AddFlow("int_br", CANARY_TABLE, 0, EmptyMap,
                                  <<"drop">>),
                          AddFlow("int_br", DVR_TO_SRC_MAC, 1, EmptyMap,
                                  <<"drop">>),
                          AddFlow("int_br", LOCAL_SWITCHING, 1, EmptyMap,
                                  <<"normal">>)>>
                        \o SetupMacFlows(dvr_macs, 1, own)
                        \o <<AddFlow("tun_br", DEFAULT_TABLE, 1,
                                     [in_port |-> patch_int_ofport],
                                     <<"resubmit", DVR_PROCESS>>),
                             AddFlow("tun_br", DVR_NOT_LEARN, 0, EmptyMap,
                                     <<"resubmit", LEARN_FROM_TUN>>),
                             AddFlow("tun_br", DVR_PROCESS, 0, EmptyMap,
                                     <<"resubmit", PATCH_LV_TO_TUN>>)>>,
                        FALSE)

(***************************************************************************)
(* dvr_mac_address_update(dvr_macs)                                        *)
(***************************************************************************)
RemovedMacFlowsIntOnly(removed) ==
    [i \in 1..Len(removed) |->
        DeleteFlows("int_br", LOCAL_SWITCHING,
                    [in_port |-> patch_tun_ofport, dl_src |-> removed[i]])]

RemovedMacFlows(removed) ==
    [i \in 1..(2 * Len(removed)) |->
        IF i % 2 = 1
        THEN DeleteFlows("int_br", LOCAL_SWITCHING,
                         [in_port |-> patch_tun_ofport,
                          dl_src |-> removed[(i + 1) \div 2]])
        ELSE DeleteFlows("tun_br", DVR_NOT_LEARN,
                         [dl_src |-> removed[i \div 2]])]

AddedMacFlows(added) ==
    [i \in 1..(2 * Len(added)) |->
        IF i % 2 = 1 THEN ClassificationFlow(added[(i + 1) \div 2])
        ELSE NotLearnFlow(added[i \div 2])]

UpToDate(dvr_host_macs_, registered) == dvr_host_macs_ = registered

MacsAddedAll(dvr_host_macs_, registered) == dvr_host_macs_

MacsAdded(dvr_host_macs_, registered) == dvr_host_macs_ \ registered

RegisteredKeepsRemoved(registered, removed, added) == registered \cup added

(* registered_dvr_macs once the removed MACs are taken out of it and the
   added MACs put in *)
RegisteredAfter(registered, removed, added) ==
    (registered \ removed) \cup added

dvr_mac_address_update(self, dvr_macs) ==
    IF Disabled(self)
    THEN Outcome(self, <<>>, FALSE)
    ELSE IF self.dvr_mac_address = NoMac
    THEN Outcome(self, <<>>, FALSE)
    ELSE LET dvr_host_macs_ == OtherMacs(dvr_macs, self.dvr_mac_address)
         IN  IF UpToDate(dvr_host_macs_, self.registered_dvr_macs)
             THEN Outcome(self, <<>>, FALSE)
             ELSE LET dvr_macs_added ==
                          MacsAdded(dvr_host_macs_, self.registered_dvr_macs)
                      dvr_macs_removed ==
                          self.registered_dvr_macs \ dvr_host_macs_
                  IN  Outcome(
                        [self EXCEPT !.registered_dvr_macs =
                            RegisteredAfter(@, dvr_macs_removed,
                                            dvr_macs_added)],
                        RemovedMacFlows(IterationOrder(dvr_macs_removed))
                        \o AddedMacFlows(IterationOrder(dvr_macs_added)),
                        FALSE)

(***************************************************************************)
(* Subnets, vif ports and the records the agent keeps about them.          *)
(***************************************************************************)
SubnetIds == {"s1", "s2"}

(* What get_subnet_for_dvr answers for a subnet whose gateway port exists,
   and what it answers otherwise. *)
SubnetInfo(s) ==
    [id |-> s,
     cidr |-> IF s = "s1" THEN "10.0.1.0/24" ELSE "10.0.2.0/24",
     gateway_ip |-> IF s = "s1" THEN "10.0.1.1" ELSE "10.0.2.1",
     gateway_mac |-> IF s = "s1" THEN "fa:16:3e:00:00:01"
                     ELSE "fa:16:3e:00:00:02"]

NoSubnetInfo == EmptyMap

(* The local VLAN of the network of a subnet. *)
LocalVlan(s) == IF s = "s1" THEN 101 ELSE 102

(* The vif ports of the host: router interfaces r1 and r2, compute ports c1
   and c2, centralized-SNAT ports n1 and n2. *)
RouterVifs == {"r1", "r2"}
ComputeVifs == {"c1", "c2"}
SnatVifs == {"n1", "n2"}
VifIds == RouterVifs \cup ComputeVifs \cup SnatVifs

VifOfport(v) ==
    CASE v = "r1" -> 11 [] v = "r2" -> 12 [] v = "c1" -> 21
      [] v = "c2" -> 22 [] v = "n1" -> 31 [] v = "n2" -> 32

VifMac(v) ==
    CASE v = "r1" -> "fa:16:3e:00:01:11" [] v = "r2" -> "fa:16:3e:00:01:12"
      [] v = "c1" -> "fa:16:3e:00:01:21" [] v = "c2" -> "fa:16:3e:00:01:22"
      [] v = "n1" -> "fa:16:3e:00:01:31" [] v = "n2" -> "fa:16:3e:00:01:32"

VifPort(v) == [vif_id |-> v, ofport |-> VifOfport(v), vif_mac |-> VifMac(v)]

VifOwner(v) ==
    IF v \in RouterVifs THEN DEVICE_OWNER_DVR_INTERFACE
    ELSE IF v \in ComputeVifs THEN DEVICE_OWNER_COMPUTE
    ELSE DEVICE_OWNER_ROUTER_SNAT

FixedIps(subnets) ==
    [i \in DOMAIN subnets |->
        [subnet_id |-> subnets[i], ip_address |-> <<subnets[i], "ip">>]]

LocalDVRSubnetMappingNoCsnat(subnet, csnat_ofport) ==
    [subnet |-> subnet, compute_ports |-> EmptyMap,
     csnat_ofport |-> OFPORT_INVALID, dvr_owned |-> FALSE]

(* LocalDVRSubnetMapping(subnet, csnat_ofport) and OVSPort(id, ofport, mac,
   device_owner), the latter with the subnets added to it. *)
LocalDVRSubnetMapping(subnet, csnat_ofport) ==
    [subnet |-> subnet, compute_ports |-> EmptyMap,
     csnat_ofport |-> csnat_ofport, dvr_owned |-> FALSE]

OVSPort(id, ofport, mac, device_owner, subnets) ==
    [id |-> id, ofport |-> ofport, mac |-> mac, subnets |-> subnets,
     device_owner |-> device_owner]

set_dvr_owned_never(ldm, owned) == ldm

set_dvr_owned_toggled(ldm, owned) == [ldm EXCEPT !.dvr_owned = ~@]

set_dvr_owned(ldm, owned) == [ldm EXCEPT !.dvr_owned = owned]

set_csnat_ofport_anew(ldm, ofport) ==
    LocalDVRSubnetMapping(ldm.subnet, ofport)

set_csnat_ofport(ldm, ofport) == [ldm EXCEPT !.csnat_ofport = ofport]

(* dict[key] = value *)
Put(dict, key, value) == (key :> value) @@ dict

(* dict.values(), in the iteration order of the dict *)
DictValues(dict) ==
    LET order == IterationOrder(DOMAIN dict)
    IN  [i \in DOMAIN order |-> dict[order[i]]]

(* The redirect flow of one port and the aggregate flow of a subnet on the
   integration bridge; ofports is the output list. *)
PerVmFlow(local_vlan, mac, gateway_mac, ofport) ==
    AddFlow("int_br", DVR_TO_SRC_MAC, 4,
            [dl_vlan |-> local_vlan, dl_dst |-> mac],
            <<"strip_vlan", "mod_dl_src", gateway_mac, "output", <<ofport>>>>)

AggregateFlow(local_vlan, ip_subnet, gateway_mac, ofports) ==
    AddFlow("int_br", DVR_TO_SRC_MAC, 2,
            [proto |-> "ip", dl_vlan |-> local_vlan, nw_dst |-> ip_subnet],
            <<"strip_vlan", "mod_dl_src", gateway_mac, "output", ofports>>)

DeletePerVmFlow(local_vlan, mac) ==
    DeleteFlows("int_br", DVR_TO_SRC_MAC,
                [dl_vlan |-> local_vlan, dl_dst |-> mac])

DeleteAggregateFlow(local_vlan, ip_subnet) ==
    DeleteFlows("int_br", DVR_TO_SRC_MAC,
                [proto |-> "ip", dl_vlan |-> local_vlan,
                 nw_dst |-> ip_subnet])

(* The output list of the aggregate flow: the CSNAT ofport, when valid,
   before the compute ofports. *)
OutputList(csnat_ofport, compute_ports) ==
    (IF csnat_ofport # OFPORT_INVALID THEN <<csnat_ofport>> ELSE <<>>)
    \o DictValues(compute_ports)

(* The state a method works on while it runs: the two tables, the bridge
   calls made so far, and whether an exception ended it. *)
Running(self) ==
    [local_dvr_map |-> self.local_dvr_map, local_ports |-> self.local_ports,
     ops |-> <<>>, raised |-> FALSE]

Finished(self, run) ==
    Outcome([self EXCEPT !.local_dvr_map = run.local_dvr_map,
                         !.local_ports = run.local_ports],
            run.ops, run.raised)

(* The port record of a compute vif once subnet_uuid is queued to it. *)
WithSubnet(local_ports_, vif_id, ofport, mac, device_owner, subnet_uuid) ==
    IF vif_id \in DOMAIN local_ports_
    THEN [local_ports_ EXCEPT ![vif_id].subnets = @ \cup {subnet_uuid}]
    ELSE Put(local_ports_, vif_id,
             OVSPort(vif_id, ofport, mac, device_owner, {subnet_uuid}))

(***************************************************************************)
(* _bind_distributed_router_interface_port: subnet_answer is what          *)
(* get_subnet_for_dvr answers, local_compute_ports what                    *)
(* get_compute_ports_on_host_by_subnet answers, vifs the vif ids           *)
(* int_br.get_vif_port_by_id finds.                                        *)
(***************************************************************************)
RECURSIVE PlumbLocalComputePorts(_, _, _, _, _, _)
PlumbLocalComputePorts(st, local_compute_ports, i, vifs, subnet_uuid, local_vlan) ==
    IF i > Len(local_compute_ports) THEN st
    ELSE LET prt == local_compute_ports[i]
             vif == VifPort(prt.id)
             queued == WithSubnet(st.local_ports, vif.vif_id, vif.ofport,
                                  vif.vif_mac, prt.device_owner, subnet_uuid)
             ovsport == queued[vif.vif_id]
             next ==
               IF prt.id \notin vifs THEN st
               ELSE [ldm |-> [st.ldm EXCEPT !.compute_ports =
                                  Put(@, vif.vif_id, vif.ofport)],
                     local_ports |-> queued,
                     ops |-> Append(st.ops,
                                PerVmFlow(local_vlan, ovsport.mac,
                                          st.ldm.subnet.gateway_mac,
                                          ovsport.ofport))]
         IN  PlumbLocalComputePorts(next, local_compute_ports, i + 1, vifs,
                                    subnet_uuid, local_vlan)

(* the "Duplicate DVR router interface detected" test *)
DuplicateRouterInterface(self, subnet_uuid) ==
    /\ subnet_uuid \in DOMAIN self.local_dvr_map
    /\ self.local_dvr_map[subnet_uuid].csnat_ofport = OFPORT_INVALID

_bind_distributed_router_interface_port(self, port, fixed_ips, device_owner, local_vlan, subnet_answer, local_compute_ports, vifs) ==
    LET subnet_uuid == fixed_ips[1].subnet_id
        known == subnet_uuid \in DOMAIN self.local_dvr_map
    IN  IF DuplicateRouterInterface(self, subnet_uuid)
        THEN Outcome(self, <<>>, FALSE)
        ELSE IF ~known /\ subnet_answer = NoSubnetInfo
        THEN Outcome(self, <<>>, FALSE)
        ELSE
          LET found == IF known THEN self.local_dvr_map[subnet_uuid]
                       ELSE LocalDVRSubnetMapping(subnet_answer,
                                                  OFPORT_INVALID)
              csnat_ofport == found.csnat_ofport
              ldm == set_dvr_owned(found, TRUE)
              subnet_info == ldm.subnet
          IN  IF subnet_info = NoSubnetInfo
              THEN \* subnet_info['cidr'] raises KeyError
                   Outcome([self EXCEPT !.local_dvr_map =
                                Put(@, subnet_uuid, ldm)], <<>>, TRUE)
              ELSE
                LET st == PlumbLocalComputePorts(
                            [ldm |-> ldm, local_ports |-> self.local_ports,
                             ops |-> <<>>],
                            local_compute_ports, 1, vifs, subnet_uuid,
                            local_vlan)
                    ofports == OutputList(csnat_ofport, st.ldm.compute_ports)
                IN  Outcome(
                      [self EXCEPT
                         !.local_dvr_map = Put(@, subnet_uuid, st.ldm),
                         !.local_ports =
                            Put(st.local_ports, port.vif_id,
                                OVSPort(port.vif_id, port.ofport,
                                        port.vif_mac, device_owner,
                                        {subnet_uuid}))],
                      st.ops
                      \o (IF ofports # <<>>
                          THEN <<AggregateFlow(local_vlan, subnet_info.cidr,
                                               subnet_info.gateway_mac,
                                               ofports)>>
                          ELSE <<>>)
                      \o <<AddFlow("tun_br", DVR_PROCESS, 3,
                                   [dl_vlan |-> local_vlan, proto |-> "arp",
                                    nw_dst |-> subnet_info.gateway_ip],
                                   <<"drop">>),
                           AddFlow("tun_br", DVR_PROCESS, 2,
                                   [dl_vlan |-> local_vlan,
                                    dl_dst |-> port.vif_mac],
                                   <<"drop">>),
                           AddFlow("tun_br", DVR_PROCESS, 1,
                                   [dl_vlan |-> local_vlan,
                                    dl_src |-> port.vif_mac],
                                   <<"mod_dl_src", self.dvr_mac_address,
                                     "resubmit", PATCH_LV_TO_TUN>>)>>,
                      FALSE)

(***************************************************************************)
(* _bind_compute_port_on_dvr_subnet                                        *)
(***************************************************************************)
SkippedUnlessMapped(local_dvr_map_, subnet_uuid) ==
    subnet_uuid \notin DOMAIN local_dvr_map_

(* The two "continue" tests of the loop: the subnet has no mapping, or its
   mapping is not dvr_owned. *)
Skipped(local_dvr_map_, subnet_uuid) ==
    \/ subnet_uuid \notin DOMAIN local_dvr_map_
    \/ ~local_dvr_map_[subnet_uuid].dvr_owned

RECURSIVE PlumbComputePort(_, _, _, _, _, _)
PlumbComputePort(run, port, fixed_ips, i, device_owner, local_vlan) ==
    IF i > Len(fixed_ips) \/ run.raised THEN run
    ELSE
      LET subnet_uuid == fixed_ips[i].subnet_id
          ldm == run.local_dvr_map[subnet_uuid]
          subnet_info == ldm.subnet
          plumbed == [ldm EXCEPT !.compute_ports =
                          Put(@, port.vif_id, port.ofport)]
          queued == WithSubnet(run.local_ports, port.vif_id, port.ofport,
                               port.vif_mac, device_owner, subnet_uuid)
          ovsport == queued[port.vif_id]
          next ==
            IF Skipped(run.local_dvr_map, subnet_uuid) THEN run
            ELSE IF subnet_info = NoSubnetInfo
            THEN [run EXCEPT !.raised = TRUE]   \* subnet_info['cidr']
            ELSE [local_dvr_map |-> Put(run.local_dvr_map, subnet_uuid,
                                        plumbed),
                  local_ports |-> queued,
                  ops |-> run.ops \o
                     <<PerVmFlow(local_vlan, ovsport.mac,
                                 subnet_info.gateway_mac, ovsport.ofport),
                       AggregateFlow(local_vlan, subnet_info.cidr,
                                     subnet_info.gateway_mac,
                                     OutputList(ldm.csnat_ofport,
                                                plumbed.compute_ports))>>,
                  raised |-> FALSE]
      IN  PlumbComputePort(next, port, fixed_ips, i + 1, device_owner,
                           local_vlan)

_bind_compute_port_on_dvr_subnet(self, port, fixed_ips, device_owner, local_vlan) ==
    Finished(self, PlumbComputePort(Running(self), port, fixed_ips, 1,
                                    device_owner, local_vlan))

(***************************************************************************)
(* _bind_centralized_snat_port_on_dvr_subnet                               *)
(***************************************************************************)
AlreadySeenNever(self, port, fixed_ips) == FALSE

(* the "Centralized-SNAT port already seen" test *)
AlreadySeen(self, port, fixed_ips) == port.vif_id \in DOMAIN self.local_ports

_bind_centralized_snat_port_on_dvr_subnet(self, port, fixed_ips, device_owner, local_vlan, subnet_answer) ==
    IF AlreadySeen(self, port, fixed_ips)
    THEN \* subs[0] raises IndexError when the record has no subnet
         Outcome(self, <<>>, self.local_ports[port.vif_id].subnets = {})
    ELSE
      LET subnet_uuid == fixed_ips[1].subnet_id
          known == subnet_uuid \in DOMAIN self.local_dvr_map
          ldm == IF known
                 THEN set_csnat_ofport(self.local_dvr_map[subnet_uuid],
                                       port.ofport)
                 ELSE LocalDVRSubnetMapping(subnet_answer, port.ofport)
          subnet_info == ldm.subnet
          ovsport == OVSPort(port.vif_id, port.ofport, port.vif_mac,
                             device_owner, {subnet_uuid})
          recorded == [self EXCEPT
                          !.local_dvr_map = Put(@, subnet_uuid, ldm),
                          !.local_ports = Put(@, port.vif_id, ovsport)]
      IN  IF subnet_info = NoSubnetInfo
          THEN \* subnet_info['gateway_mac'] raises
               Outcome(recorded, <<>>, TRUE)
          ELSE Outcome(recorded,
                       <<PerVmFlow(local_vlan, ovsport.mac,
                                   subnet_info.gateway_mac, ovsport.ofport),
                         AggregateFlow(local_vlan, subnet_info.cidr,
                                       subnet_info.gateway_mac,
                                       OutputList(ldm.csnat_ofport,
                                                  ldm.compute_ports))>>,
                       FALSE)

(***************************************************************************)
(* bind_port_to_dvr                                                        *)
(***************************************************************************)
TUNNEL_NETWORK_TYPES == {"gre", "vxlan"}

bind_port_to_dvr(self, port, network_type, fixed_ips, device_owner, local_vlan_id, subnet_answer, local_compute_ports, vifs) ==
    IF Disabled(self)
    THEN Outcome(self, <<>>, FALSE)
    ELSE IF network_type \notin TUNNEL_NETWORK_TYPES
    THEN Outcome(self, <<>>, FALSE)
    ELSE IF device_owner = DEVICE_OWNER_DVR_INTERFACE
    THEN _bind_distributed_router_interface_port(self, port, fixed_ips,
             device_owner, local_vlan_id, subnet_answer,
             local_compute_ports, vifs)
    ELSE IF device_owner = DEVICE_OWNER_COMPUTE
    THEN _bind_compute_port_on_dvr_subnet(self, port, fixed_ips,
             device_owner, local_vlan_id)
    ELSE IF device_owner = DEVICE_OWNER_ROUTER_SNAT
    THEN _bind_centralized_snat_port_on_dvr_subnet(self, port, fixed_ips,
             device_owner, local_vlan_id, subnet_answer)
    ELSE Outcome(self, <<>>, FALSE)

(***************************************************************************)
(* _unbind_distributed_router_interface_port.  The local variable ovsport  *)
(* is the record of the removed port until the loop over a subnet's        *)
(* compute ports rebinds it to the record of a compute port; run.ovsport   *)
(* is the vif id of the record it refers to.                               *)
(***************************************************************************)
RECURSIVE RemoveVmRules(_, _, _, _)
RemoveVmRules(run, compute_vifs, i, local_vlan) ==
    IF i > Len(compute_vifs) \/ run.raised THEN run
    ELSE LET vif_id == compute_vifs[i]
             next ==
               IF vif_id \notin DOMAIN run.local_ports
               THEN [run EXCEPT !.raised = TRUE]  \* self.local_ports[vif_id]
               ELSE [run EXCEPT
                       !.ovsport = vif_id,
                       !.ops = Append(@,
                                 DeletePerVmFlow(local_vlan,
                                     run.local_ports[vif_id].mac))]
         IN  RemoveVmRules(next, compute_vifs, i + 1, local_vlan)

RECURSIVE UnbindRouterSubnets(_, _, _, _)
UnbindRouterSubnets(run, subnet_set, i, local_vlan) ==
    IF i > Len(subnet_set) \/ run.raised THEN run
    ELSE
      LET sub_uuid == subnet_set[i]
          found == run.local_dvr_map[sub_uuid]
          subnet_info == found.subnet
          ldm == set_dvr_owned(found, FALSE)
          disowned == [run EXCEPT
                          !.local_dvr_map = Put(@, sub_uuid, ldm)]
          removed == RemoveVmRules(disowned,
                                   IterationOrder(DOMAIN ldm.compute_ports),
                                   1, local_vlan)
          cleared == [ldm EXCEPT !.compute_ports = EmptyMap]
          kept == cleared.csnat_ofport # OFPORT_INVALID
          ovsport == removed.local_ports[removed.ovsport]
          next ==
            IF sub_uuid \notin DOMAIN run.local_dvr_map THEN run
            ELSE IF subnet_info = NoSubnetInfo
            THEN [run EXCEPT !.raised = TRUE]   \* subnet_info['cidr']
            ELSE IF removed.raised THEN removed
            ELSE
              [removed EXCEPT
                 !.local_dvr_map =
                    IF kept THEN Put(@, sub_uuid, cleared)
                    ELSE Pop(@, sub_uuid),
                 !.ops = @ \o
                    <<IF kept
                      THEN AggregateFlow(local_vlan, subnet_info.cidr,
                                         subnet_info.gateway_mac,
                                         <<cleared.csnat_ofport>>)
                      ELSE DeleteAggregateFlow(local_vlan, subnet_info.cidr),
                      DeleteFlows("tun_br", DVR_PROCESS,
                                  [dl_vlan |-> local_vlan, proto |-> "arp",
                                   nw_dst |-> subnet_info.gateway_ip])>>,
                 \* ovsport.remove_subnet(sub_uuid): KeyError when absent
                 !.local_ports =
                    IF sub_uuid \in ovsport.subnets
                    THEN [@ EXCEPT ![removed.ovsport].subnets =
                                        @ \ {sub_uuid}]
                    ELSE @,
                 !.raised = sub_uuid \notin ovsport.subnets]
      IN  UnbindRouterSubnets(next, subnet_set, i + 1, local_vlan)

_unbind_distributed_router_interface_port(self, port, local_vlan) ==
    LET start == [local_dvr_map |-> self.local_dvr_map,
                  local_ports |-> self.local_ports,
                  ops |-> <<>>, raised |-> FALSE, ovsport |-> port.vif_id]
        subnet_set == IterationOrder(self.local_ports[port.vif_id].subnets)
        run == UnbindRouterSubnets(start, subnet_set, 1, local_vlan)
    IN  IF run.raised THEN Finished(self, run)
        ELSE Finished(self,
               [run EXCEPT
                  !.ops = @ \o
                     <<DeleteFlows("tun_br", DVR_PROCESS,
                                   [dl_vlan |-> local_vlan,
                                    dl_dst |-> port.vif_mac]),
                       DeleteFlows("tun_br", DVR_PROCESS,
                                   [dl_vlan |-> local_vlan,
                                    dl_src |-> port.vif_mac])>>,
                  !.local_ports = Pop(@, port.vif_id)])

(***************************************************************************)
(* _unbind_compute_port_on_dvr_subnet                                      *)
(***************************************************************************)
RECURSIVE UnbindComputeSubnets(_, _, _, _, _)
UnbindComputeSubnets(run, port, subnet_ids, i, local_vlan) ==
    IF i > Len(subnet_ids) \/ run.raised THEN run
    ELSE
      LET sub_uuid == subnet_ids[i]
          found == run.local_dvr_map[sub_uuid]
          subnet_info == found.subnet
          ldm == [found EXCEPT !.compute_ports = Pop(@, port.vif_id)]
          removed == [run EXCEPT !.local_dvr_map = Put(@, sub_uuid, ldm)]
          ovsport == run.local_ports[port.vif_id]
          ofports == OutputList(ldm.csnat_ofport, ldm.compute_ports)
          next ==
            IF sub_uuid \notin DOMAIN run.local_dvr_map THEN run
            ELSE IF subnet_info = NoSubnetInfo
            THEN [removed EXCEPT !.raised = TRUE]   \* subnet_info['cidr']
            ELSE [removed EXCEPT
                    !.ops = @ \o
                      <<DeletePerVmFlow(local_vlan, ovsport.mac),
                        IF ofports # <<>>
                        THEN AggregateFlow(local_vlan, subnet_info.cidr,
                                           subnet_info.gateway_mac, ofports)
                        ELSE DeleteAggregateFlow(local_vlan,
                                                 subnet_info.cidr)>>]
      IN  UnbindComputeSubnets(next, port, subnet_ids, i + 1, local_vlan)

_unbind_compute_port_on_dvr_subnet(self, port, local_vlan) ==
    LET subnet_ids == IterationOrder(self.local_ports[port.vif_id].subnets)
        run == UnbindComputeSubnets(Running(self), port, subnet_ids, 1,
                                    local_vlan)
    IN  IF run.raised THEN Finished(self, run)
        ELSE Finished(self, [run EXCEPT !.local_ports = Pop(@, port.vif_id)])

(***************************************************************************)
(* _unbind_centralized_snat_port_on_dvr_subnet                             *)
(***************************************************************************)
_unbind_centralized_snat_port_on_dvr_subnet(self, port, local_vlan) ==
    LET ovsport == self.local_ports[port.vif_id]
        sub_uuid == IterationOrder(ovsport.subnets)[1]
        found == self.local_dvr_map[sub_uuid]
        subnet_info == found.subnet
        ldm == set_csnat_ofport(found, OFPORT_INVALID)
        ofports == DictValues(ldm.compute_ports)
    IN  IF ovsport.subnets = {}
        THEN Outcome(self, <<>>, TRUE)    \* list(...)[0] raises IndexError
        ELSE IF sub_uuid \notin DOMAIN self.local_dvr_map
        THEN Outcome(self, <<>>, FALSE)
        ELSE IF subnet_info = NoSubnetInfo
        THEN Outcome(self, <<>>, TRUE)    \* subnet_info['cidr']
        ELSE Outcome(
               [self EXCEPT
                  !.local_dvr_map = IF ldm.dvr_owned
                                    THEN Put(@, sub_uuid, ldm)
                                    ELSE Pop(@, sub_uuid),
                  !.local_ports = Pop(@, port.vif_id)],
               <<DeletePerVmFlow(local_vlan, ovsport.mac),
                 IF ofports # <<>>
                 THEN AggregateFlow(local_vlan, subnet_info.cidr,
                                    subnet_info.gateway_mac, ofports)
                 ELSE DeleteAggregateFlow(local_vlan, subnet_info.cidr)>>,
               FALSE)

(***************************************************************************)
(* unbind_port_from_dvr                                                    *)
(***************************************************************************)
unbind_port_from_dvr(self, vif_port, local_vlan_id) ==
    IF Disabled(self)
    THEN Outcome(self, <<>>, FALSE)
    ELSE IF vif_port.vif_id \notin DOMAIN self.local_ports
    THEN Outcome(self, <<>>, FALSE)
    ELSE LET device_owner == self.local_ports[vif_port.vif_id].device_owner
         IN  IF device_owner = DEVICE_OWNER_DVR_INTERFACE
             THEN _unbind_distributed_router_interface_port(self, vif_port,
                                                            local_vlan_id)
             ELSE IF device_owner = DEVICE_OWNER_COMPUTE
             THEN _unbind_compute_port_on_dvr_subnet(self, vif_port,
                                                     local_vlan_id)
             ELSE IF device_owner = DEVICE_OWNER_ROUTER_SNAT
             THEN _unbind_centralized_snat_port_on_dvr_subnet(self, vif_port,
                                                             local_vlan_id)
             ELSE Outcome(self, <<>>, FALSE)

(***************************************************************************)
(* The calls the OVS agent makes on its DVR agent.                         *)
(***************************************************************************)
(* The method op ran with argument arg and ended with outcome r. *)
AgentCall(op, arg, r) ==
    /\ enable_distributed_routing' = r.self.enable_distributed_routing
    /\ dvr_mac_address' = r.self.dvr_mac_address
    /\ registered_dvr_macs' = r.self.registered_dvr_macs
    /\ local_dvr_map' = r.self.local_dvr_map
    /\ local_ports' = r.self.local_ports
    /\ int_br' = Replay(int_br, r.ops, "int_br")
    /\ tun_br' = Replay(tun_br, r.ops, "tun_br")
    /\ agent_call' = [op |-> op, arg |-> arg,
                      repeated |-> agent_call.op = op /\ agent_call.arg = arg]
    /\ flow_ops' = r.ops
    /\ raised' = r.raised
    /\ UNCHANGED <<macVars, l2Vars>>

SetupDvrFlows(details, dvr_macs) ==
    AgentCall("setup_dvr_flows_on_integ_tun_br", <<details, dvr_macs>>,
              setup_dvr_flows_on_integ_tun_br(AgentSelf, details, dvr_macs))

(* The methods below run once setup_dvr_flows_on_integ_tun_br has. *)
DvrMacAddressUpdate(dvr_macs) ==
    /\ agent_call.op # "__init__"
    /\ AgentCall("dvr_mac_address_update", dvr_macs,
                 dvr_mac_address_update(AgentSelf, dvr_macs))

(* bind_port_to_dvr for vif v with fixed IPs on subnets, on a network of
   type network_type. *)
BindPort(v, network_type, subnets, subnet_answer, local_compute_ports, vifs) ==
    /\ agent_call.op # "__init__"
    /\ AgentCall("bind_port_to_dvr",
                 [vif_id |-> v, subnets |-> subnets,
                  network_type |-> network_type,
                  subnet_answer |-> subnet_answer,
                  local_compute_ports |-> local_compute_ports,
                  vifs |-> vifs],
                 bind_port_to_dvr(AgentSelf, VifPort(v), network_type,
                                  FixedIps(subnets), VifOwner(v),
                                  LocalVlan(subnets[1]), subnet_answer,
                                  local_compute_ports, vifs))

(* unbind_port_from_dvr for vif v, with the local VLAN of subnet s. *)
UnbindPort(v, s) ==
    /\ agent_call.op # "__init__"
    /\ AgentCall("unbind_port_from_dvr", [vif_id |-> v, subnets |-> <<s>>],
                 unbind_port_from_dvr(AgentSelf, VifPort(v), LocalVlan(s)))

(* What get_compute_ports_on_host_by_subnet can answer: the compute ports
   of S, in some order. *)
ComputePortLists(S) ==
    UNION {{[i \in DOMAIN o |-> [id |-> o[i], device_owner |-> VifOwner(o[i])]] :
              o \in Orderings(T)} : T \in SUBSET S}

(***************************************************************************)
(* The controller's side of get_subnet_for_dvr: the inventory holds the    *)
(* subnets that exist and the ports, each port with its fixed IPs.         *)
(***************************************************************************)
Subnet(s) ==
    [id |-> s,
     cidr |-> IF s = "s1" THEN "10.0.1.0/24" ELSE "10.0.2.0/24",
     gateway_ip |-> IF s = "s1" THEN "10.0.1.1" ELSE "10.0.2.1"]

(* The ports the inventory can hold: the gateway port of each subnet and a
   compute port with an address on s1. *)
GatewayPort(s) ==
    [id |-> <<"gateway", s>>,
     mac_address |-> IF s = "s1" THEN "fa:16:3e:00:00:01"
                     ELSE "fa:16:3e:00:00:02",
     fixed_ips |-> <<[subnet_id |-> s, ip_address |-> Subnet(s).gateway_ip]>>]

ComputePortOn(s) ==
    [id |-> <<"compute", s>>,
     mac_address |-> "fa:16:3e:00:01:21",
     fixed_ips |-> <<[subnet_id |-> s,
                      ip_address |-> IF s = "s1" THEN "10.0.1.5"
                                     ELSE "10.0.2.5"]>>]

InventoryPorts == {GatewayPort("s1"), GatewayPort("s2"), ComputePortOn("s1")}

Inventories ==
    {inv \in [subnets : SUBSET SubnetIds, ports : SUBSET InventoryPorts] :
        \A port \in inv.ports :
           \A i \in DOMAIN port.fixed_ips :
              port.fixed_ips[i].subnet_id \in inv.subnets}

(* plugin.get_ports with the filter {'fixed_ips': {'subnet_id': [subnet],
   'ip_address': [ip_address]}}: the ports with that address on that
   subnet. *)
get_ports(inventory, subnet, ip_address) ==
    {port \in inventory.ports :
        \E i \in DOMAIN port.fixed_ips :
           /\ port.fixed_ips[i].subnet_id = subnet
           /\ port.fixed_ips[i].ip_address = ip_address}

(* The rows the gateway-port query of get_subnet_for_dvr can return. *)
GatewayRows(inventory, subnet) ==
    IF subnet \notin inventory.subnets THEN {<<>>}
    ELSE Orderings(get_ports(inventory, subnet, Subnet(subnet).gateway_ip))

get_subnet_for_dvr_ungated(inventory, subnet, internal_gateway_ports) ==
    IF subnet \notin inventory.subnets
    THEN EmptyMap
    ELSE Subnet(subnet)

(* get_subnet_for_dvr(context, subnet); internal_gateway_ports is what the
   gateway-port query returned. *)
get_subnet_for_dvr(inventory, subnet, internal_gateway_ports) ==
    IF subnet \notin inventory.subnets
    THEN EmptyMap                                     \* SubnetNotFound
    ELSE LET subnet_info == Subnet(subnet)
         IN  IF internal_gateway_ports = <<>>
             THEN EmptyMap
             ELSE [id |-> subnet_info.id, cidr |-> subnet_info.cidr,
                   gateway_ip |-> subnet_info.gateway_ip,
                   gateway_mac |-> internal_gateway_ports[1].mac_address]

(* bind_port_to_dvr for vif v on subnet s, the controller answering
   get_subnet_for_dvr out of its inventory. *)
BindPortIn(inventory, v, s, internal_gateway_ports) ==
    LET subnet_answer ==
            get_subnet_for_dvr(inventory, s, internal_gateway_ports)
    IN  /\ agent_call.op # "__init__"
        /\ AgentCall("bind_port_to_dvr",
                     [vif_id |-> v, subnets |-> <<s>>,
                      network_type |-> "vxlan",
                      subnet_answer |-> subnet_answer,
                      local_compute_ports |-> <<>>, vifs |-> {},
                      inventory |-> inventory],
                     bind_port_to_dvr(AgentSelf, VifPort(v), "vxlan",
                                      FixedIps(<<s>>), VifOwner(v),
                                      LocalVlan(s), subnet_answer, <<>>, {}))

(* The inputs of SpecSubnetInfo: the agent is set up once; the router
   interfaces r1 and r2 are bound on s1 and s2 respectively, each time
   against some inventory of the controller, and unbound. *)
NextSubnetInfo ==
    \/ /\ agent_call.op = "__init__"
       /\ SetupDvrFlows(OwnMacDetails, <<>>)
    \/ \E inventory \in Inventories, v \in RouterVifs :
          LET s == IF v = "r1" THEN "s1" ELSE "s2"
          IN  \E internal_gateway_ports \in GatewayRows(inventory, s) :
                 BindPortIn(inventory, v, s, internal_gateway_ports)
    \/ \E v \in RouterVifs :
          UnbindPort(v, IF v = "r1" THEN "s1" ELSE "s2")

(* The inputs of SpecL2pop: the compute port p1 changes its status, its
   fixed IPs and its host (none or one of the two healthy agents) and can be
   deleted, p2 stays on h2, the DVR-interface port keeps its binding:host_id
   and is not deleted. *)
L2popHosts == {NoHost, "h1", "h2"}

NextL2pop ==
    \/ \E p \in PortIds, status \in {PORT_STATUS_ACTIVE, PORT_STATUS_DOWN,
                                     PORT_STATUS_BUILD},
          h \in L2popHosts, ips \in FixedIpChoices \cup {<<"10.0.0.20">>} :
            UpdatePort(p, status, h, ips)
    \/ \E h \in DvrHosts, status \in {PORT_STATUS_ACTIVE, PORT_STATUS_DOWN} :
            UpdateDvrPort(h, status, ports[DvrPort].binding_host_id)
    \/ \E h \in L2popHosts : DeletePortPrecommit("p1", h)
    \/ \E h \in L2popHosts : DeletePortPostcommit("p1", h)

(* The inputs of SpecL2popDelete: every port changes its status only (p1
   once it has been bound to one of the healthy agents or to the agent
   without tunnel IP), and p1 and the DVR-interface port can be deleted. *)
NextL2popDelete ==
    \/ \E p \in PortIds, status \in {PORT_STATUS_ACTIVE, PORT_STATUS_DOWN},
          h \in {"h1", "h2", "h3"} :
            /\ ports[p].binding_host_id \in {NoHost, h}
            /\ UpdatePort(p, status, h, ports[p].fixed_ips)
    \/ \E h \in DvrHosts, status \in {PORT_STATUS_ACTIVE, PORT_STATUS_DOWN} :
            UpdateDvrPort(h, status, ports[DvrPort].binding_host_id)
    \/ \E p \in {"p1", DvrPort}, h \in PortHosts : DeletePortPrecommit(p, h)
    \/ \E p \in {"p1", DvrPort}, h \in PortHosts : DeletePortPostcommit(p, h)

(* The inputs of SpecL2popUnresolved: the compute port p1 alone changes
   its status, its fixed IPs and its host, over every host of PortHosts
   (those whose agent, tunnel IP or segment do not resolve included), and
   can be deleted. *)
NextL2popUnresolved ==
    \/ \E status \in {PORT_STATUS_ACTIVE, PORT_STATUS_DOWN, PORT_STATUS_BUILD},
          h \in PortHosts, ips \in FixedIpChoices :
            UpdatePort("p1", status, h, ips)
    \/ \E h \in PortHosts : DeletePortPrecommit("p1", h)
    \/ \E h \in PortHosts : DeletePortPostcommit("p1", h)

(* The inputs of SpecFixedIps: the compute port p1, on h1, is given any
   list of fixed IPs out of a pool of NumDiffIps addresses (the empty list
   included), each time with a status. *)
NumDiffIps == 3     \* size of the pool of SpecFixedIps

IpListOf(I) ==
    LET order == CHOOSE o \in Orderings(I) :
                    \A i \in DOMAIN o, j \in DOMAIN o : i < j => o[i] < o[j]
    IN  [k \in DOMAIN order |-> IpNames[order[k]]]

FixedIpLists == {IpListOf(I) : I \in SUBSET (1..NumDiffIps)}

NextFixedIps ==
    \E status \in {PORT_STATUS_ACTIVE, PORT_STATUS_DOWN}, ips \in FixedIpLists :
        PortUpdated("p1", status, "h1", ips)

(* The inputs of SpecIpsAndBranches: one update of the compute port p1 can
   change its fixed IPs, its status and its host (one of the two healthy
   agents) together; p2 changes its status on h2. *)
NextIpsAndBranches ==
    \/ \E status \in {PORT_STATUS_ACTIVE, PORT_STATUS_DOWN, PORT_STATUS_BUILD},
          h \in {"h1", "h2"}, ips \in FixedIpChoices \cup {<<"10.0.0.20">>} :
            PortUpdated("p1", status, h, ips)
    \/ \E status \in {PORT_STATUS_ACTIVE, PORT_STATUS_DOWN} :
            PortUpdated("p2", status, "h2", ports["p2"].fixed_ips)

(* The host p was bound to immediately before its most recent host change,
   as an observer of the updates of p keeps it in the record of the last
   call (no host before the first change). *)
HostBefore(p) ==
    IF "host_before" \in DOMAIN call /\ call.port = p
    THEN call.host_before ELSE NoHost

(* PortUpdated, with the observer's note of the host before the most
   recent host change added to the record of the call. *)
PortMoved(p, status, h) ==
    /\ ports[p].status # DELETED
    /\ deleting[p] = {}
    /\ LET new == Port(p, status, h, ports[p].fixed_ips)
           new_ports == [ports EXCEPT ![p] = new]
           db == Inventory(new_ports, dvr_bindings)
           context == [current |-> new, original |-> ports[p],
                       binding |-> [host |-> h, status |-> status],
                       bound_segment |-> BoundSegment(h)]
       IN  \E nondvr_rows \in Orderings(get_nondvr_network_ports(db, NetworkId)),
              dvr_rows \in Orderings(get_dvr_network_ports(db, NetworkId)) :
             LET r == update_port_postcommit(db, migrated_ports, context,
                                             nondvr_rows, dvr_rows)
             IN  /\ ports' = new_ports
                 /\ migrated_ports' = r.migrated_ports
                 /\ fdb_notifications' = r.sent
    /\ call' = [op |-> "update_port_postcommit", port |-> p, host |-> NoHost,
                host_before |-> IF h # ports[p].binding_host_id
                                THEN ports[p].binding_host_id
                                ELSE HostBefore(p)]
    /\ UNCHANGED <<dvr_bindings, deleting, remove_fdb_entries>>
    /\ UNCHANGED <<macVars, agentVars>>

(* The inputs of SpecMigrations: the API moves the compute port p1 between
   the hosts h1, h2 and h5, the port keeping its status, and the agent of
   the port's host reports a status (get_device_details sets BUILD), in
   any order. *)
NextMigrations ==
    \/ \E h \in {"h1", "h2", "h5"} :
          /\ h # ports["p1"].binding_host_id
          /\ PortMoved("p1", ports["p1"].status, h)
    \/ \E status \in {PORT_STATUS_ACTIVE, PORT_STATUS_DOWN,
                       PORT_STATUS_BUILD} :
          /\ ports["p1"].binding_host_id # NoHost
          /\ PortMoved("p1", status, ports["p1"].binding_host_id)

(* The inputs of SpecDvrHost: the bindings of the DVR-interface port change
   their status and an update can give the port another binding:host_id
   (none or one of the DVR hosts); p1 changes its status on h1 and p2 on
   h2. *)
NextDvrHost ==
    \/ \E h \in DvrHosts, status \in {PORT_STATUS_ACTIVE, PORT_STATUS_DOWN},
          port_host \in {NoHost} \cup DvrHosts :
            UpdateDvrPort(h, status, port_host)
    \/ \E p \in PortIds \ {DvrPort},
          status \in {PORT_STATUS_ACTIVE, PORT_STATUS_DOWN} :
            PortUpdated(p, status, IF p = "p1" THEN "h1" ELSE "h2",
                        ports[p].fixed_ips)

(* The inputs of SpecAgentMacOnce: the agent is set up once, on the bridges
   as its constructor received them, and obtains its MAC; the controller
   then delivers MAC lists, and the router interface r1 is bound on s1 and
   unbound in between. *)
NextAgentMacOnce ==
    \/ \E dvr_macs \in MacLists :
          /\ agent_call.op = "__init__"
          /\ SetupDvrFlows(OwnMacDetails, dvr_macs)
    \/ \E dvr_macs \in MacLists : DvrMacAddressUpdate(dvr_macs)
    \/ BindPort("r1", "vxlan", <<"s1">>, SubnetInfo("s1"), <<>>, {})
    \/ UnbindPort("r1", "s1")

(* The inputs of SpecAgentMac: the agent is set up (again after a restart of
   the bridges' owner), with or without an answer to its request for its
   own MAC; the controller delivers MAC lists; the router interface r1 is
   bound on s1 and unbound. *)
NextAgentMac ==
    \/ \E details \in {RpcFailure, OwnMacDetails}, dvr_macs \in MacLists :
            SetupDvrFlows(details, dvr_macs)
    \/ \E dvr_macs \in MacLists : DvrMacAddressUpdate(dvr_macs)
    \/ BindPort("r1", "vxlan", <<"s1">>, SubnetInfo("s1"), <<>>, {})
    \/ UnbindPort("r1", "s1")

(* The inputs of SpecAgentBind: the agent is set up once and obtains its
   MAC; the router interface r1 and the compute ports c1 and c2 are on s1,
   the centralized-SNAT port n1 is bound on s1 or on s2; a port is unbound
   with the local VLAN of a subnet queued to its record. *)
NextAgentBind ==
    \/ /\ agent_call.op = "__init__"
       /\ SetupDvrFlows(OwnMacDetails, <<>>)
    \/ \E v \in {"r1", "c1", "c2", "n1"}, s \in SubnetIds,
          answers \in BOOLEAN,
          local_compute_ports \in ComputePortLists(ComputeVifs),
          vifs \in SUBSET ComputeVifs :
          LET subnet_answer == IF answers THEN SubnetInfo(s)
                               ELSE NoSubnetInfo
          IN
            /\ v # "n1" => s = "s1"
            /\ v \in ComputeVifs \cup SnatVifs =>
                  (local_compute_ports = <<>> /\ vifs = {})
            /\ v \in ComputeVifs => subnet_answer = NoSubnetInfo
            /\ BindPort(v, "vxlan", <<s>>, subnet_answer,
                        local_compute_ports, vifs)
    \/ \E v \in {"r1", "c1", "c2", "n1"}, s \in SubnetIds :
            /\ v \in DOMAIN local_ports =>
                  (s \in local_ports[v].subnets
                   \/ (local_ports[v].subnets = {} /\ s = "s1"))
            /\ v \notin DOMAIN local_ports => s = "s1"
            /\ UnbindPort(v, s)

(* The inputs of SpecAgentShared: the agent is set up once and obtains its
   MAC; the router interfaces r1 and r2, the compute port c1 and the
   centralized-SNAT ports n1 and n2 are all on s1 and are bound and unbound
   in any order, the controller answering a bind with the subnet or with
   nothing, and with or without c1 as a local compute port. *)
SharedVifs == {"r1", "r2", "c1", "n1", "n2"}

NextAgentShared ==
    \/ /\ agent_call.op = "__init__"
       /\ SetupDvrFlows(OwnMacDetails, <<>>)
    \/ \E v \in SharedVifs, answers \in BOOLEAN,
          local_compute_ports \in ComputePortLists({"c1"}),
          vifs \in SUBSET {"c1"} :
          LET subnet_answer == IF answers THEN SubnetInfo("s1")
                               ELSE NoSubnetInfo
          IN
            /\ v \notin RouterVifs =>
                  (local_compute_ports = <<>> /\ vifs = {})
            /\ v \in ComputeVifs => subnet_answer = NoSubnetInfo
            /\ BindPort(v, "vxlan", <<"s1">>, subnet_answer,
                        local_compute_ports, vifs)
    \/ \E v \in SharedVifs : UnbindPort(v, "s1")

(* bind_port_to_dvr for vif v with fixed IPs on subnets of the one network
   whose local VLAN is that of s1. *)
BindPortOnNetwork(v, subnets, subnet_answer, local_compute_ports, vifs) ==
    /\ agent_call.op # "__init__"
    /\ AgentCall("bind_port_to_dvr",
                 [vif_id |-> v, subnets |-> subnets,
                  network_type |-> "vxlan",
                  subnet_answer |-> subnet_answer,
                  local_compute_ports |-> local_compute_ports,
                  vifs |-> vifs],
                 bind_port_to_dvr(AgentSelf, VifPort(v), "vxlan",
                                  FixedIps(subnets), VifOwner(v),
                                  LocalVlan("s1"), subnet_answer,
                                  local_compute_ports, vifs))

(* The inputs of SpecAgentTwoSubnets: the agent is set up once and obtains
   its MAC; s1 and s2 are subnets of one network; the router interface r1
   is on s1 and r2 on s2, the centralized-SNAT port n1 is on s2, and the
   compute port c1 has fixed IPs on s1, on s2 or on both. *)
NextAgentTwoSubnets ==
    \/ /\ agent_call.op = "__init__"
       /\ SetupDvrFlows(OwnMacDetails, <<>>)
    \/ \E v \in RouterVifs,
          local_compute_ports \in ComputePortLists({"c1"}),
          vifs \in SUBSET {"c1"} :
          LET s == IF v = "r1" THEN "s1" ELSE "s2"
          IN  BindPortOnNetwork(v, <<s>>, SubnetInfo(s),
                                local_compute_ports, vifs)
    \/ BindPortOnNetwork("n1", <<"s2">>, SubnetInfo("s2"), <<>>, {})
    \/ \E subnets \in {<<"s1">>, <<"s2">>, <<"s1", "s2">>, <<"s2", "s1">>} :
          BindPortOnNetwork("c1", subnets, NoSubnetInfo, <<>>, {})
    \/ \E v \in {"r1", "r2", "n1", "c1"} : UnbindPort(v, "s1")

Init == InitMac /\ InitL2pop /\ InitAgent

SpecMac == Init /\ [][NextMac]_vars

SpecL2pop == Init /\ [][NextL2pop]_vars

SpecL2popDelete == Init /\ [][NextL2popDelete]_vars

SpecL2popUnresolved == Init /\ [][NextL2popUnresolved]_vars

SpecFixedIps == Init /\ [][NextFixedIps]_vars

SpecIpsAndBranches == Init /\ [][NextIpsAndBranches]_vars

SpecDvrHost == Init /\ [][NextDvrHost]_vars

SpecAgentMacOnce == Init /\ [][NextAgentMacOnce]_vars

SpecAgentMac == Init /\ [][NextAgentMac]_vars

SpecSubnetInfo == Init /\ [][NextSubnetInfo]_vars

SpecAgentBind == Init /\ [][NextAgentBind]_vars

SpecAgentShared == Init /\ [][NextAgentShared]_vars

SpecMigrations == Init /\ [][NextMigrations]_vars

SpecAgentTwoSubnets == Init /\ [][NextAgentTwoSubnets]_vars

(***************************************************************************)
(* Claims about the MAC authority (checked under SpecMac).                 *)
(***************************************************************************)
TableConstraints ==
    \A r1 \in dvr_host_macs, r2 \in dvr_host_macs :
        (r1.host = r2.host \/ r1.mac_address = r2.mac_address) => r1 = r2

(* The step in which the call of c inserts its row. *)
InsertStep(c) == ~obs[c].inserted /\ obs'[c].inserted

(* The step in which c starts a call for h (and looks the host up). *)
CallStep(c, h) ==
    /\ pc[c] = "idle"
    /\ \/ pc'[c] = "create" /\ host'[c] = h
       \/ /\ pc'[c] = "idle" /\ completed' # completed
          /\ completed'.caller = c /\ completed'.host = h

(* The step in which c, having inserted, broadcasts and returns. *)
NotifyStep(c) == pc[c] = "notify" /\ pc'[c] = "idle"

(* C1, as stated: under every interleaving of get_dvr_mac_address_by_host
   and delete_dvr_mac_address calls the table has at most one row per host
   and no two rows with the same mac_address, and of two concurrent calls
   for the same host never both insert a row. *)
C1_AsStated ==
    [][/\ TableConstraints'
       /\ \A c \in Callers : InsertStep(c) => ~obs[c].rival]_vars

(* C1, amended: the table has at most one row per host and no two rows with
   the same mac_address, and of two concurrent calls for the same host never
   both insert a row unless the host is deleted between the two inserts. *)
C1_UniqueRows ==
    [][/\ TableConstraints'
       /\ \A c \in Callers : InsertStep(c) => ~obs[c].rival_live]_vars

(* Two callers raced for one host: one inserted, the other tried and got a
   duplicate entry. *)
C1_Witness ==
    \E c \in Callers, d \in Callers :
        /\ c # d /\ host[c] = host[d]
        /\ pc[c] = "notify" /\ pc[d] = "create"
        /\ obs[d].rival_live /\ attempt[d] >= 1
        /\ Cardinality(dvr_host_macs) = 2

(* C2, as stated: once a call for a non-empty host h returned m, every later
   call for h with no delete of h after that return returns m, inserts no
   row and leaves the table as it is. *)
C2_AsStated ==
    [][\A c \in Callers, h \in Hosts \ {EmptyHost} :
          (CallStep(c, h) /\ returned[h].any # NoMac) =>
              /\ pc'[c] = "idle"
              /\ completed'.outcome = "returned"
              /\ completed'.result = returned[h].any
              /\ ~completed'.inserted
              /\ dvr_host_macs' = dvr_host_macs]_vars

(* C2, amended: once a call for a non-empty host h returned m, every later
   call for h returns m, inserts no row and leaves the table as it is,
   provided no delete of h ran since the row (h, m) was inserted. *)
C2_SameMacAgain ==
    [][\A c \in Callers, h \in Hosts \ {EmptyHost} :
          (CallStep(c, h) /\ returned[h].live # NoMac) =>
              /\ pc'[c] = "idle"
              /\ completed'.outcome = "returned"
              /\ completed'.result = returned[h].live
              /\ ~completed'.inserted
              /\ dvr_host_macs' = dvr_host_macs]_vars

(* A call found the binding an earlier, completed call had created. *)
C2_Witness ==
    /\ completed.outcome = "returned"
    /\ completed.result # NoMac
    /\ ~completed.inserted
    /\ returned[completed.host].live = completed.result
    /\ \A c \in Callers : host[c] # completed.host

(* C3: a call that ends with MacAddressGenerationFailure has made exactly
   max_retries insert attempts, inserted no row and sent no broadcast; and
   no call that has made max_retries failed attempts is still looping. *)
C3_RetriesExhausted ==
    /\ completed.outcome = "raised" =>
           /\ completed.attempts = MaxRetries
           /\ ~completed.inserted
           /\ completed.broadcasts = <<>>
    /\ \A c \in Callers : pc[c] = "create" => attempt[c] < MaxRetries

(* A call failed after max_retries colliding attempts; no other call is in
   flight and the table, which is not empty, holds no row for its host. *)
C3_Witness ==
    /\ completed.outcome = "raised"
    /\ completed.attempts = MaxRetries
    /\ HostRows(completed.host) = {}
    /\ \A c \in Callers : host[c] # completed.host
    /\ dvr_host_macs # {}
    /\ \A c \in Callers : ~InFlight(c)

(* C4, as stated: a call that inserted a row ends with exactly one
   broadcast, sent after the insert, whose list is the table's content and
   includes the new binding; a call that finds the binding broadcasts
   nothing. *)
C4_AsStated ==
    [][\A c \in Callers :
          /\ NotifyStep(c) =>
                /\ completed'.inserted
                /\ completed'.broadcasts = <<dvr_host_macs>>
                /\ Row(host[c], completed'.result) \in dvr_host_macs
          /\ (pc[c] = "idle" /\ completed' # completed
                /\ completed'.caller = c) =>
                   completed'.broadcasts = <<>>
          /\ (completed' # completed /\ completed'.inserted) =>
                   Len(completed'.broadcasts) = 1]_vars

(* C4, amended: a call that inserted a row ends with exactly one broadcast,
   sent after the insert, whose list is the table's content when it is read;
   it includes the new binding unless the host was deleted after the insert.
   A call that finds the binding broadcasts nothing. *)
C4_BroadcastOnce ==
    [][\A c \in Callers :
          /\ NotifyStep(c) =>
                /\ completed'.inserted
                /\ completed'.broadcasts = <<dvr_host_macs>>
                /\ \/ Row(host[c], completed'.result) \in dvr_host_macs
                   \/ obs[c].deleted_since
          /\ (pc[c] = "idle" /\ completed' # completed
                /\ completed'.caller = c) =>
                   completed'.broadcasts = <<>>
          /\ (completed' # completed /\ completed'.inserted) =>
                   Len(completed'.broadcasts) = 1]_vars

(* A first-time allocation completed; its broadcast carried the new binding
   and the binding of another host. *)
C4_Witness ==
    /\ completed.outcome = "returned"
    /\ completed.inserted
    /\ Len(completed.broadcasts) = 1
    /\ Row(completed.host, completed.result) \in completed.broadcasts[1]
    /\ Cardinality(completed.broadcasts[1]) = 2

(***************************************************************************)
(* Claims about the L2-population driver (checked under SpecL2pop and      *)
(* SpecL2popDelete).                                                       *)
(***************************************************************************)
(* The step in which update_port_postcommit runs for port p. *)
UpdateStep(p) ==
    call'.op = "update_port_postcommit" /\ call'.port = p

(* The steps in which delete_port_precommit / delete_port_postcommit run
   for port p. *)
PrecommitStep(p) ==
    /\ call'.op = "delete_port_precommit" /\ call'.port = p
    /\ deleting'[p] # deleting[p]

PostcommitStep(p) ==
    /\ call'.op = "delete_port_postcommit" /\ call'.port = p
    /\ deleting'[p] # deleting[p]

(* The agent of host A, its tunnel IP and the tunneled segment resolve. *)
Resolves(A, segment) ==
    /\ A \in AgentHosts
    /\ get_agent_by_host(A).tunneling_ip # ""
    /\ segment # None
    /\ segment.network_type \in get_agent_by_host(A).tunnel_types

TunnelIp(A) == get_agent_by_host(A).tunneling_ip

(* update_port_postcommit for the compute port p reaches the port-up
   procedure: the status changes to ACTIVE and the update is not taken as a
   new migration. *)
PortUpRuns(p) ==
    /\ UpdateStep(p)
    /\ device_owner_of[p] # DEVICE_OWNER_DVR_INTERFACE
    /\ ports[p].status # PORT_STATUS_ACTIVE
    /\ ports'[p].status = PORT_STATUS_ACTIVE
    /\ \/ ports'[p].binding_host_id = ports[p].binding_host_id
       \/ p \in DOMAIN migrated_ports

(* The port-up procedure runs for port p on agent host A, and A resolves. *)
PortUp(p, A) ==
    /\ Resolves(A, BoundSegment(A))
    /\ IF p = DvrPort
       THEN /\ UpdateStep(p)
            /\ call'.host = A
            /\ dvr_bindings'[A] = PORT_STATUS_ACTIVE
            /\ ports'[p].binding_host_id = ports[p].binding_host_id
       ELSE /\ PortUpRuns(p)
            /\ ports'[p].binding_host_id = A

IsUntargetedAdd(n) == n.method = "add_fdb_entries" /\ n.host = NoHost

IsTargetedAdd(n, A) == n.method = "add_fdb_entries" /\ n.host = A

HasSentinel(entries) == \E i \in DOMAIN entries : entries[i] = FLOODING_ENTRY

(* A's active-port count on the network once the step has committed. *)
PostCommitCount(A) ==
    get_agent_network_active_port_count(Inventory(ports', dvr_bindings'),
                                        A, NetworkId)

(* The other agents with a tunnel IP that have, once the step has
   committed, an active compute port on the network. *)
OthersWithActivePort(A) ==
    {h \in AgentHosts \ {A} :
        /\ TunnelIp(h) # ""
        /\ \E q \in PortIds \ {DvrPort} :
              /\ ports'[q].status = PORT_STATUS_ACTIVE
              /\ ports'[q].binding_host_id = h}

(* The other agents with a tunnel IP that have, once the step has
   committed, an active DVR-interface binding on the network. *)
OthersWithActiveDvrBinding(A) ==
    {h \in (AgentHosts \cap DvrHosts) \ {A} :
        /\ TunnelIp(h) # ""
        /\ ports'[DvrPort].status # DELETED
        /\ dvr_bindings'[h] = PORT_STATUS_ACTIVE}

(* C5: delete_port_precommit sends no notification and captures a payload
   for its agent host only; delete_port_postcommit sends exactly one
   remove_fdb_entries per agent host captured at precommit, each with the
   payload captured for that host, and leaves no entry for the port in the
   pending-removal map. *)
C5_DeferredRemoval ==
    [][\A p \in PortIds :
        /\ PrecommitStep(p) =>
             /\ fdb_notifications' = <<>>
             /\ CapturedHosts(remove_fdb_entries', p) =
                  CapturedHosts(remove_fdb_entries, p)
                  \cup (deleting'[p] \ deleting[p])
             /\ \A h \in CapturedHosts(remove_fdb_entries, p)
                         \ (deleting'[p] \ deleting[p]) :
                  remove_fdb_entries'[p][h] = remove_fdb_entries[p][h]
        /\ PostcommitStep(p) =>
             LET captured == CapturedHosts(remove_fdb_entries, p)
             IN  /\ \E order \in Orderings(captured) :
                      fdb_notifications' =
                        [i \in 1..Cardinality(captured) |->
                           [method |-> "remove_fdb_entries",
                            fdb_entries |-> remove_fdb_entries[p][order[i]],
                            host |-> NoHost]]
                 /\ p \notin DOMAIN remove_fdb_entries']_vars

(* The delete of the DVR-interface port flushed the two payloads captured
   for its two binding hosts. *)
C5_Witness ==
    /\ call.op = "delete_port_postcommit" /\ call.port = DvrPort
    /\ Len(fdb_notifications) = 2
    /\ fdb_notifications[1].fdb_entries # None
    /\ fdb_notifications[2].fdb_entries # None
    /\ fdb_notifications[1].fdb_entries # fdb_notifications[2].fdb_entries
    /\ DvrPort \notin DOMAIN remove_fdb_entries

(* C6: when a compute port goes ACTIVE on host A and A's agent, tunnel IP
   and tunneled bound segment resolve, port-up sends exactly one untargeted
   add_fdb_entries, and its payload lists under A's tunnel IP (and under no
   other) one [mac, device_owner, ip] entry per fixed IP of the port. *)
C6_AddForEachFixedIp ==
    [][\A p \in PortIds \ {DvrPort} :
        LET A == ports'[p].binding_host_id
            NotSentinel(e) == e # FLOODING_ENTRY
            adds == SelectSeq(fdb_notifications', IsUntargetedAdd)
        IN  (PortUpRuns(p) /\ Resolves(A, BoundSegment(A))) =>
              /\ Len(adds) = 1
              /\ DOMAIN adds[1].fdb_entries.ports = {TunnelIp(A)}
              /\ SelectSeq(adds[1].fdb_entries.ports[TunnelIp(A)],
                           NotSentinel) =
                   [i \in 1..Len(ports'[p].fixed_ips) |->
                      <<mac_of[p], device_owner_of[p],
                        ports'[p].fixed_ips[i]>>]]_vars

(* p1 with two fixed IPs went ACTIVE on h1 and the add named both. *)
C6_Witness ==
    /\ call.op = "update_port_postcommit" /\ call.port = "p1"
    /\ ports["p1"].status = PORT_STATUS_ACTIVE
    /\ ports["p1"].binding_host_id = "h1"
    /\ \E i \in DOMAIN fdb_notifications :
          /\ IsUntargetedAdd(fdb_notifications[i])
          /\ fdb_notifications[i].fdb_entries.ports["172.16.0.1"] =
               <<<<mac_of["p1"], DEVICE_OWNER_COMPUTE, "10.0.0.5">>,
                 <<mac_of["p1"], DEVICE_OWNER_COMPUTE, "10.0.0.6">>>>

(* C7, as stated: when port-up runs for agent A, if A's post-commit active
   count is 1 or A's uptime is below agent_boot_time then exactly one
   add_fdb_entries targeted at A is sent, before the untargeted add;
   otherwise no targeted notification is sent. *)
C7_AsStated ==
    [][\A p \in PortIds, A \in AgentHosts :
        PortUp(p, A) =>
          LET sent == fdb_notifications'
              targeted == {i \in DOMAIN sent : sent[i].host # NoHost}
          IN  IF \/ PostCommitCount(A) = 1
                 \/ UptimeBelowBootTime(get_agent_by_host(A))
              THEN \E i \in DOMAIN sent, j \in DOMAIN sent :
                      /\ i < j
                      /\ IsTargetedAdd(sent[i], A)
                      /\ IsUntargetedAdd(sent[j])
                      /\ targeted = {i}
              ELSE targeted = {}]_vars

(* C7, amended: the targeted bootstrap add is sent, before the untargeted
   add, when A's post-commit active count is 1 or A's uptime is below
   agent_boot_time AND some other agent with a tunnel IP has an active
   compute port or an active DVR-interface binding on the network (the
   bootstrap payload is not empty); in every other case no targeted
   notification is sent. *)
C7_BootstrapFirst ==
    [][\A p \in PortIds, A \in AgentHosts :
        PortUp(p, A) =>
          LET sent == fdb_notifications'
              targeted == {i \in DOMAIN sent : sent[i].host # NoHost}
          IN  IF /\ \/ PostCommitCount(A) = 1
                    \/ UptimeBelowBootTime(get_agent_by_host(A))
                 /\ OthersWithActivePort(A) \cup OthersWithActiveDvrBinding(A)
                        # {}
              THEN \E i \in DOMAIN sent, j \in DOMAIN sent :
                      /\ i < j
                      /\ IsTargetedAdd(sent[i], A)
                      /\ IsUntargetedAdd(sent[j])
                      /\ targeted = {i}
              ELSE targeted = {}]_vars

(* p2, not the first active port of the restarted agent h2, went ACTIVE
   and h2 got the bootstrap before the all-agents add. *)
C7_Witness ==
    /\ call.op = "update_port_postcommit" /\ call.port = "p2"
    /\ get_agent_network_active_port_count(
           Inventory(ports, dvr_bindings), "h2", NetworkId) = 2
    /\ Len(fdb_notifications) = 2
    /\ IsTargetedAdd(fdb_notifications[1], "h2")
    /\ IsUntargetedAdd(fdb_notifications[2])

(* C8: the payload _update_port_down builds has the agent's tunnel IP as
   its only key and holds the flooding sentinel under it iff the agent's
   active-port count, queried when the payload is built, equals the
   threshold: 0 when update_port_postcommit takes a port or a DVR binding
   DOWN or tears down the origin of a migration, 1 in
   delete_port_precommit. *)
C8_SentinelIffThreshold ==
    [][/\ \A p \in PortIds \ {DvrPort} :
           LET A == ports'[p].binding_host_id
               sent == fdb_notifications'
           IN  ( /\ UpdateStep(p)
                 /\ ports[p].status # PORT_STATUS_DOWN
                 /\ ports'[p].status = PORT_STATUS_DOWN
                 /\ Resolves(A, BoundSegment(A)) ) =>
                   /\ sent # <<>>
                   /\ sent[Len(sent)].method = "remove_fdb_entries"
                   /\ DOMAIN sent[Len(sent)].fdb_entries.ports = {TunnelIp(A)}
                   /\ HasSentinel(sent[Len(sent)].fdb_entries.ports[TunnelIp(A)])
                        <=> PostCommitCount(A) = 0
       /\ \A p \in PortIds \ {DvrPort} :
           LET new_host == ports'[p].binding_host_id
               sent == fdb_notifications'
           IN  ( /\ UpdateStep(p)
                 /\ ports[p].status # PORT_STATUS_BUILD
                 /\ ports'[p].status = PORT_STATUS_BUILD
                 /\ p \in DOMAIN migrated_ports
                 /\ Resolves(migrated_ports[p].binding_host_id,
                             BoundSegment(new_host)) ) =>
                 LET A == migrated_ports[p].binding_host_id
                 IN /\ sent # <<>>
                    /\ sent[Len(sent)].method = "remove_fdb_entries"
                    /\ DOMAIN sent[Len(sent)].fdb_entries.ports = {TunnelIp(A)}
                    /\ HasSentinel(sent[Len(sent)].fdb_entries.ports[TunnelIp(A)])
                         <=> PostCommitCount(A) = 0
       /\ \A A \in DvrHosts :
           LET sent == fdb_notifications'
           IN  ( /\ UpdateStep(DvrPort)
                 /\ call'.host = A
                 /\ dvr_bindings'[A] = PORT_STATUS_DOWN
                 /\ Resolves(A, BoundSegment(A)) ) =>
                   /\ sent # <<>>
                   /\ sent[Len(sent)].method = "remove_fdb_entries"
                   /\ DOMAIN sent[Len(sent)].fdb_entries.ports = {TunnelIp(A)}
                   /\ HasSentinel(sent[Len(sent)].fdb_entries.ports[TunnelIp(A)])
                        <=> PostCommitCount(A) = 0
       /\ \A p \in PortIds, A \in AgentHosts :
           ( /\ PrecommitStep(p)
             /\ deleting'[p] \ deleting[p] = {A}
             /\ Resolves(A, BoundSegment(A)) ) =>
               LET payload == remove_fdb_entries'[p][A]
               IN  /\ DOMAIN payload.ports = {TunnelIp(A)}
                   /\ HasSentinel(payload.ports[TunnelIp(A)])
                        <=> get_agent_network_active_port_count(
                                Inventory(ports, dvr_bindings), A,
                                NetworkId) = 1]_vars

(* p1, the only active port of h1 on the network, went DOWN and the
   teardown payload carries the sentinel and the port's entry. *)
C8_Witness ==
    /\ call.op = "update_port_postcommit" /\ call.port = "p1"
    /\ ports["p1"].status = PORT_STATUS_DOWN
    /\ ports["p1"].binding_host_id = "h1"
    /\ dvr_bindings["h1"] # PORT_STATUS_ACTIVE
    /\ Len(fdb_notifications) = 1
    /\ fdb_notifications[1].method = "remove_fdb_entries"
    /\ fdb_notifications[1].fdb_entries # None
    /\ HasSentinel(fdb_notifications[1].fdb_entries.ports["172.16.0.1"])
    /\ Len(fdb_notifications[1].fdb_entries.ports["172.16.0.1"]) >= 2

(* The tunnel IPs that carry a flooding sentinel in a payload. *)
SentinelIps(payload) ==
    {ip \in DOMAIN payload.ports : HasSentinel(payload.ports[ip])}

(* The step sends agent A, whose post-commit active count is 1, the
   bootstrap notification sent[i]. *)
FirstPortBootstrap(i, A) ==
    /\ call'.op = "update_port_postcommit"
    /\ i \in DOMAIN fdb_notifications'
    /\ IsTargetedAdd(fdb_notifications'[i], A)
    /\ PostCommitCount(A) = 1

(* C9, as stated: in the bootstrap payload sent to agent A on its first
   port activation, the tunnel IPs that carry a flooding sentinel are
   exactly those of the other agents that have at least one active non-DVR
   port on the network; no other agent has a key in the payload and A's
   tunnel IP is never a key. *)
C9_AsStated ==
    [][\A A \in AgentHosts, i \in DOMAIN fdb_notifications' :
        FirstPortBootstrap(i, A) =>
          LET payload == fdb_notifications'[i].fdb_entries
          IN  /\ SentinelIps(payload) =
                   {TunnelIp(h) : h \in OthersWithActivePort(A)}
              /\ DOMAIN payload.ports = SentinelIps(payload)
              /\ TunnelIp(A) \notin DOMAIN payload.ports]_vars

(* C9, amended: the tunnel IPs that carry a flooding sentinel in the
   bootstrap payload are exactly those of the other agents that have a
   tunnel IP and at least one active non-DVR port or an active
   DVR-interface binding on the network; no other agent has a key in the
   payload and A's tunnel IP is never a key. *)
C9_BootstrapSentinels ==
    [][\A A \in AgentHosts, i \in DOMAIN fdb_notifications' :
        FirstPortBootstrap(i, A) =>
          LET payload == fdb_notifications'[i].fdb_entries
          IN  /\ SentinelIps(payload) =
                   {TunnelIp(h) : h \in OthersWithActivePort(A)
                                        \cup OthersWithActiveDvrBinding(A)}
              /\ DOMAIN payload.ports = SentinelIps(payload)
              /\ TunnelIp(A) \notin DOMAIN payload.ports]_vars

(* p1 went ACTIVE as the first port of h1 while h2 had only an active
   DVR-interface binding: the bootstrap holds h2's sentinel and nothing
   else. *)
C9_Witness ==
    /\ call.op = "update_port_postcommit" /\ call.port = "p1"
    /\ ports["p1"].binding_host_id = "h1"
    /\ ports["p2"].status # PORT_STATUS_ACTIVE
    /\ dvr_bindings["h2"] = PORT_STATUS_ACTIVE
    /\ Len(fdb_notifications) = 2
    /\ IsTargetedAdd(fdb_notifications[1], "h1")
    /\ fdb_notifications[1].fdb_entries.ports =
         ("172.16.0.2" :> <<FLOODING_ENTRY>>)

(* C10: an update_port_postcommit whose binding:host_id differs from the
   original's, whose new status is ACTIVE, whose fixed IPs are unchanged
   and for whose port no record is tracked stores the original port as the
   port's record in migrated_ports and sends nothing; no update replaces a
   record that is tracked. *)
C10_MigrationRecorded ==
    [][\A p \in PortIds :
        UpdateStep(p) =>
          /\ ( /\ ports'[p].binding_host_id # ports[p].binding_host_id
               /\ ports'[p].status = PORT_STATUS_ACTIVE
               /\ IpSet(ports'[p]) = IpSet(ports[p])
               /\ p \notin DOMAIN migrated_ports ) =>
                 /\ migrated_ports' = (p :> ports[p]) @@ migrated_ports
                 /\ fdb_notifications' = <<>>
          /\ ( /\ p \in DOMAIN migrated_ports
               /\ p \in DOMAIN migrated_ports' ) =>
                 migrated_ports'[p] = migrated_ports[p]]_vars

(* p1, ACTIVE, moved to another host: the original is recorded and nothing
   was sent. *)
C10_Witness ==
    /\ call.op = "update_port_postcommit" /\ call.port = "p1"
    /\ "p1" \in DOMAIN migrated_ports
    /\ migrated_ports["p1"].status = PORT_STATUS_ACTIVE
    /\ ports["p1"].status = PORT_STATUS_ACTIVE
    /\ migrated_ports["p1"].binding_host_id \in {"h1", "h2"}
    /\ ports["p1"].binding_host_id \in {"h1", "h2"}
    /\ migrated_ports["p1"].binding_host_id # ports["p1"].binding_host_id
    /\ fdb_notifications = <<>>

IsRemove(n) == n.method = "remove_fdb_entries"

(* update_port_postcommit takes the compute port p to BUILD. *)
BuildStep(p) ==
    /\ UpdateStep(p)
    /\ device_owner_of[p] # DEVICE_OWNER_DVR_INTERFACE
    /\ ports[p].status # PORT_STATUS_BUILD
    /\ ports'[p].status = PORT_STATUS_BUILD

(* The [mac, device_owner, ip] entries of a port snapshot. *)
SnapshotEntries(snapshot) ==
    [i \in 1..Len(snapshot.fixed_ips) |->
        <<snapshot.mac_address, snapshot.device_owner,
          snapshot.fixed_ips[i]>>]

(* C11, as stated: when a compute port goes to BUILD and a record is
   tracked for it, exactly one remove_fdb_entries is sent, its payload
   lists the recorded snapshot's entries under the tunnel IP of the old
   host's agent, and the record is removed; when no record is tracked no
   notification is sent. *)
C11_AsStated ==
    [][\A p \in PortIds :
        BuildStep(p) =>
          LET sent == fdb_notifications'
              removes == SelectSeq(sent, IsRemove)
              NotSentinel(e) == e # FLOODING_ENTRY
          IN  IF p \in DOMAIN migrated_ports
              THEN LET A == migrated_ports[p].binding_host_id
                       payload == removes[1].fdb_entries
                   IN  /\ Len(removes) = 1
                       /\ p \notin DOMAIN migrated_ports'
                       /\ payload # None
                       /\ A \in AgentHosts
                       /\ DOMAIN payload.ports = {TunnelIp(A)}
                       /\ SelectSeq(payload.ports[TunnelIp(A)], NotSentinel)
                            = SnapshotEntries(migrated_ports[p])
              ELSE sent = <<>>]_vars

(* C11, amended: when a compute port goes to BUILD and a record is tracked
   for it, exactly one remove_fdb_entries is sent and the record is
   removed; the payload lists the recorded snapshot's entries under the
   tunnel IP of the old host's agent when that agent, its tunnel IP and
   the bound segment of the update resolve, and is None otherwise.  When no
   record is tracked no remove_fdb_entries is sent and the map is left as
   it is. *)
C11_BuildTeardown ==
    [][\A p \in PortIds :
        BuildStep(p) =>
          LET sent == fdb_notifications'
              removes == SelectSeq(sent, IsRemove)
              NotSentinel(e) == e # FLOODING_ENTRY
          IN  IF p \in DOMAIN migrated_ports
              THEN LET A == migrated_ports[p].binding_host_id
                       payload == removes[1].fdb_entries
                   IN  /\ Len(removes) = 1
                       /\ p \notin DOMAIN migrated_ports'
                       /\ IF Resolves(A, BoundSegment(
                                             ports'[p].binding_host_id))
                          THEN /\ payload # None
                               /\ DOMAIN payload.ports = {TunnelIp(A)}
                               /\ SelectSeq(payload.ports[TunnelIp(A)],
                                            NotSentinel)
                                    = SnapshotEntries(migrated_ports[p])
                          ELSE payload = None
              ELSE /\ removes = <<>>
                   /\ migrated_ports' = migrated_ports]_vars

(* p1, recorded on h1, reached BUILD on h2: h1's entries are torn down and
   the record is gone. *)
C11_Witness ==
    /\ call.op = "update_port_postcommit" /\ call.port = "p1"
    /\ ports["p1"].status = PORT_STATUS_BUILD
    /\ ports["p1"].binding_host_id = "h2"
    /\ "p1" \notin DOMAIN migrated_ports
    /\ Len(fdb_notifications) = 1
    /\ IsRemove(fdb_notifications[1])
    /\ fdb_notifications[1].fdb_entries # None
    /\ DOMAIN fdb_notifications[1].fdb_entries.ports = {"172.16.0.1"}

(* C12: when delete_port_precommit and delete_port_postcommit have run for
   the compute port p, the migrated-ports map holds no record for p. *)
C12_AsStated ==
    [][\A p \in PortIds \ {DvrPort} :
        PostcommitStep(p) => p \notin DOMAIN migrated_ports']_vars

(***************************************************************************)
(* Claims about hosts that do not resolve (checked under                   *)
(* SpecL2popUnresolved).                                                   *)
(***************************************************************************)
(* C13: when delete_port_precommit runs for a port whose agent, tunnel IP or
   bound segment does not resolve (or whose segment type the agent does not
   tunnel), no entry is captured for that host, and delete_port_postcommit
   sends no notification for it. *)
C13_AsStated ==
    [][\A p \in PortIds \ {DvrPort} :
        LET A == ports[p].binding_host_id
        IN  ~Resolves(A, BoundSegment(A)) =>
              /\ PrecommitStep(p) =>
                    A \notin CapturedHosts(remove_fdb_entries', p)
              /\ PostcommitStep(p) => fdb_notifications' = <<>>]_vars

(* C14: when update_port_postcommit runs for a compute port and neither the
   host of the original port, nor the host of the updated port, nor the
   host of a tracked MigrationRecord resolves (agent, tunnel IP, bound
   segment, tunnel type), no FDB notification is sent. *)
C14_AsStated ==
    [][\A p \in PortIds \ {DvrPort} :
        LET segment == BoundSegment(ports'[p].binding_host_id)
            affected == {ports[p].binding_host_id, ports'[p].binding_host_id}
                        \cup (IF p \in DOMAIN migrated_ports
                              THEN {migrated_ports[p].binding_host_id}
                              ELSE {})
        IN  (/\ UpdateStep(p)
             /\ \A A \in affected : ~Resolves(A, segment))
            => fdb_notifications' = <<>>]_vars

(***************************************************************************)
(* Claims about the OVS DVR agent's MAC flows and enablement (checked      *)
(* under SpecAgentMac).                                                    *)
(***************************************************************************)
(* The step in which the agent method op runs. *)
AgentStep(op) == agent_call'.op = op

(* The agent obtained its MAC and distributed routing is enabled. *)
Ready == enable_distributed_routing /\ dvr_mac_address # NoMac

(* The number of calls op on bridge for the flows of MAC mac among ops. *)
MacOps(ops, bridge, op, mac) ==
    LET Test(o) == /\ o.bridge = bridge /\ o.op = op
                   /\ "dl_src" \in DOMAIN o.match /\ o.match.dl_src = mac
    IN  Len(SelectSeq(ops, Test))

(* C15: after dvr_mac_address_update(L) on a ready agent registered_dvr_macs
   is the set of MACs of L other than the agent's own; for each MAC that
   was registered and is not in L there is one delete_flows on the
   integration bridge and one on the tunnel bridge, for each MAC of L that
   was not registered one add_flow on each bridge, and there is no other
   bridge operation. *)
C15_ReconcileMacSet ==
    [][(AgentStep("dvr_mac_address_update") /\ Ready) =>
        LET L == agent_call'.arg
            macs == {L[i].mac_address : i \in DOMAIN L} \ {dvr_mac_address}
            removed == registered_dvr_macs \ macs
            added == macs \ registered_dvr_macs
            Times(S, m) == IF m \in S THEN 1 ELSE 0
        IN  /\ registered_dvr_macs' = macs
            /\ \A m \in OtherDvrMacs \cup {AgentOwnMac},
                  bridge \in {"int_br", "tun_br"} :
                 /\ MacOps(flow_ops', bridge, "delete_flows", m)
                      = Times(removed, m)
                 /\ MacOps(flow_ops', bridge, "add_flow", m)
                      = Times(added, m)
            /\ Len(flow_ops') = 2 * Cardinality(removed)
                                + 2 * Cardinality(added)
            /\ ~raised']_vars

(* A list with one MAC that was not registered and without one that was
   has been delivered: one delete pair and one add pair. *)
C15_Witness ==
    /\ agent_call.op = "dvr_mac_address_update"
    /\ Ready
    /\ Len(flow_ops) = 4
    /\ \E old \in OtherDvrMacs, new \in OtherDvrMacs :
         /\ old # new
         /\ registered_dvr_macs = {new}
         /\ \A bridge \in {"int_br", "tun_br"} :
              /\ MacOps(flow_ops, bridge, "delete_flows", old) = 1
              /\ MacOps(flow_ops, bridge, "add_flow", new) = 1

(* C16: a dvr_mac_address_update that follows a dvr_mac_address_update with
   the same list performs no bridge operation and leaves
   registered_dvr_macs as it is. *)
C16_SecondUpdateIdle ==
    [][(AgentStep("dvr_mac_address_update") /\ agent_call'.repeated) =>
        /\ flow_ops' = <<>>
        /\ registered_dvr_macs' = registered_dvr_macs
        /\ int_br' = int_br /\ tun_br' = tun_br]_vars

(* The same list, naming another host's MAC, was delivered twice in a row
   to a ready agent. *)
C16_Witness ==
    /\ agent_call.op = "dvr_mac_address_update"
    /\ agent_call.repeated
    /\ Ready
    /\ registered_dvr_macs # {}
    /\ flow_ops = <<>>

(* The catch-all flow of the local-switching table. *)
NormalFlow ==
    [table |-> LOCAL_SWITCHING, priority |-> 1, match |-> EmptyMap,
     actions |-> <<"normal">>]

(* C17: when setup_dvr_flows_on_integ_tun_br of an enabled agent gets no
   answer to its request for its own MAC, distributed routing is switched
   off, the only bridge operation is the installation of the catch-all
   normal flow on the integration bridge's local-switching table, and no
   exception escapes; once distributed routing is off it stays off, and no
   method performs a bridge operation or changes the agent's tables, its
   MAC set or the bridges. *)
C17_DisabledForGood ==
    [][/\ (/\ AgentStep("setup_dvr_flows_on_integ_tun_br")
           /\ enable_distributed_routing
           /\ agent_call'.arg[1] = RpcFailure)
          => /\ ~enable_distributed_routing'
             /\ Len(flow_ops') = 1
             /\ flow_ops'[1].bridge = "int_br"
             /\ flow_ops'[1].op = "add_flow"
             /\ Flow(flow_ops'[1]) = NormalFlow
             /\ int_br' = int_br \cup {NormalFlow}
             /\ tun_br' = tun_br
             /\ ~raised'
       /\ ~enable_distributed_routing
          => /\ ~enable_distributed_routing'
             /\ flow_ops' = <<>>
             /\ ~raised'
             /\ UNCHANGED <<dvr_mac_address, registered_dvr_macs,
                            local_dvr_map, local_ports, int_br, tun_br>>]_vars

(* The agent failed to obtain its MAC and a bind_port_to_dvr arrived
   afterwards: the normal flow is installed and the bind did nothing. *)
C17_Witness ==
    /\ ~enable_distributed_routing
    /\ agent_call.op = "bind_port_to_dvr"
    /\ NormalFlow \in int_br
    /\ flow_ops = <<>>
    /\ local_ports = EmptyMap
    /\ dvr_mac_address = NoMac

(***************************************************************************)
(* Claims about the OVS DVR agent's port bindings (checked under           *)
(* SpecAgentBind).                                                         *)
(***************************************************************************)
(* The step in which bind_port_to_dvr runs for a vif of the given owner on
   subnet S, on a tunneled network, with distributed routing enabled. *)
BindStep(owner, S) ==
    /\ AgentStep("bind_port_to_dvr")
    /\ enable_distributed_routing
    /\ VifOwner(agent_call'.arg.vif_id) = owner
    /\ agent_call'.arg.subnets[1] = S
    /\ agent_call'.arg.network_type \in TUNNEL_NETWORK_TYPES

(* The step in which unbind_port_from_dvr runs for a vif recorded in the
   port table with the given owner and with subnet S queued to it, with the
   local VLAN of S. *)
UnbindStep(owner, S) ==
    /\ AgentStep("unbind_port_from_dvr")
    /\ enable_distributed_routing
    /\ agent_call'.arg.vif_id \in DOMAIN local_ports
    /\ local_ports[agent_call'.arg.vif_id].device_owner = owner
    /\ local_ports[agent_call'.arg.vif_id].subnets = {S}
    /\ agent_call'.arg.subnets = <<S>>

IsPerVmFlow(f, S, mac) ==
    /\ f.table = DVR_TO_SRC_MAC /\ f.priority = 4
    /\ f.match = [dl_vlan |-> LocalVlan(S), dl_dst |-> mac]

IsAggregateFlow(f, S) ==
    /\ f.table = DVR_TO_SRC_MAC /\ f.priority = 2
    /\ f.match = [proto |-> "ip", dl_vlan |-> LocalVlan(S),
                  nw_dst |-> SubnetInfo(S).cidr]

(* The output list of a redirect or aggregate flow. *)
OutputOf(f) == f.actions[5]

Range(seq) == {seq[i] : i \in DOMAIN seq}

AddsOf(ops, priority) ==
    LET Test(o) == /\ o.bridge = "int_br" /\ o.op = "add_flow"
                   /\ o.table = DVR_TO_SRC_MAC /\ o.priority = priority
    IN  SelectSeq(ops, Test)

(* C18: binding a router interface on a subnet S without local mapping, the
   controller answering with the subnet and with compute ports of which n
   are on the integration bridge, marks S dvr_owned, installs n per-VM
   redirect flows (one per such port) and, when n > 0, one aggregate flow
   whose output list is the n ofports; unbinding a router interface from S
   leaves no per-VM flow of S's compute ports and no aggregate flow
   listing a compute port and, when S has no CSNAT ofport, no aggregate
   flow and no mapping of S. *)
C18_RouterInterfaceFlows ==
    [][\A S \in SubnetIds :
        /\ (/\ BindStep(DEVICE_OWNER_DVR_INTERFACE, S)
            /\ S \notin DOMAIN local_dvr_map
            /\ agent_call'.arg.subnet_answer # NoSubnetInfo)
           => LET arg == agent_call'.arg
                  found == {arg.local_compute_ports[i].id :
                              i \in DOMAIN arg.local_compute_ports}
                           \cap arg.vifs
                  n == Cardinality(found)
                  per_vm == AddsOf(flow_ops', 4)
                  aggregate == AddsOf(flow_ops', 2)
              IN  /\ S \in DOMAIN local_dvr_map'
                  /\ local_dvr_map'[S].dvr_owned
                  /\ Len(per_vm) = n
                  /\ \A c \in found :
                       \E i \in DOMAIN per_vm :
                          /\ IsPerVmFlow(Flow(per_vm[i]), S, VifMac(c))
                          /\ OutputOf(per_vm[i]) = <<VifOfport(c)>>
                          /\ Flow(per_vm[i]) \in int_br'
                  /\ Len(aggregate) = IF n > 0 THEN 1 ELSE 0
                  /\ n > 0 =>
                       /\ IsAggregateFlow(Flow(aggregate[1]), S)
                       /\ Len(OutputOf(aggregate[1])) = n
                       /\ Range(OutputOf(aggregate[1]))
                            = {VifOfport(c) : c \in found}
                       /\ Flow(aggregate[1]) \in int_br'
                  /\ ~raised'
        /\ (/\ UnbindStep(DEVICE_OWNER_DVR_INTERFACE, S)
            /\ S \in DOMAIN local_dvr_map)
           => LET ldm == local_dvr_map[S]
                  computes == DOMAIN ldm.compute_ports
              IN  /\ \A f \in int_br', c \in computes :
                        ~IsPerVmFlow(f, S, VifMac(c))
                  /\ \A f \in int_br' :
                        IsAggregateFlow(f, S) =>
                          Range(OutputOf(f)) \cap
                             {VifOfport(c) : c \in ComputeVifs} = {}
                  /\ ldm.csnat_ofport = OFPORT_INVALID =>
                        /\ \A f \in int_br' : ~IsAggregateFlow(f, S)
                        /\ S \notin DOMAIN local_dvr_map'
                  /\ ~raised']_vars

(* The router interface r1 was unbound from s1, on which c1 and c2 were
   plumbed and no CSNAT port was bound: both per-VM flows and the aggregate
   flow were deleted and the mapping of s1 is gone. *)
C18_Witness ==
    /\ agent_call.op = "unbind_port_from_dvr"
    /\ agent_call.arg.vif_id = "r1"
    /\ "s1" \notin DOMAIN local_dvr_map
    /\ "r1" \notin DOMAIN local_ports
    /\ \A c \in ComputeVifs :
         \E i \in DOMAIN flow_ops :
            flow_ops[i] = DeletePerVmFlow(LocalVlan("s1"), VifMac(c))
    /\ \E i \in DOMAIN flow_ops :
         flow_ops[i] = DeleteAggregateFlow(LocalVlan("s1"),
                                           SubnetInfo("s1").cidr)
    /\ \A f \in int_br : f.table = DVR_TO_SRC_MAC => f.priority = 1

(* C19: binding a centralized-SNAT port whose vif is not in the port table
   on a subnet S whose mapping is dvr_owned with csnat_ofport INVALID
   succeeds: the port is recorded and its redirect flow installed,
   csnat_ofport of S becomes the port's ofport, dvr_owned stays true and
   the compute ports of S are unchanged. *)
C19_CsnatOnOwnedSubnet ==
    [][\A S \in SubnetIds :
        (/\ BindStep(DEVICE_OWNER_ROUTER_SNAT, S)
         /\ agent_call'.arg.vif_id \notin DOMAIN local_ports
         /\ S \in DOMAIN local_dvr_map
         /\ local_dvr_map[S].dvr_owned
         /\ local_dvr_map[S].csnat_ofport = OFPORT_INVALID)
        => LET v == agent_call'.arg.vif_id
           IN  /\ ~raised'
               /\ S \in DOMAIN local_dvr_map'
               /\ local_dvr_map'[S].csnat_ofport = VifOfport(v)
               /\ local_dvr_map'[S].dvr_owned
               /\ local_dvr_map'[S].compute_ports
                    = local_dvr_map[S].compute_ports
               /\ v \in DOMAIN local_ports'
               /\ local_ports'[v].subnets = {S}
               /\ \E f \in int_br' :
                     /\ IsPerVmFlow(f, S, VifMac(v))
                     /\ OutputOf(f) = <<VifOfport(v)>>]_vars

(* n1 was bound on s1 while s1 was dvr_owned with a compute port plumbed and
   without CSNAT ofport. *)
C19_Witness ==
    /\ agent_call.op = "bind_port_to_dvr"
    /\ agent_call.arg.vif_id = "n1"
    /\ ~raised
    /\ flow_ops # <<>>
    /\ "s1" \in DOMAIN local_dvr_map
    /\ local_dvr_map["s1"].dvr_owned
    /\ local_dvr_map["s1"].csnat_ofport = VifOfport("n1")
    /\ DOMAIN local_dvr_map["s1"].compute_ports # {}

(* C20: binding a centralized-SNAT port whose vif is recorded in the port
   table for a subnet other than the one of the bind changes neither the
   subnet mappings, nor the port table, nor the flows of the two bridges,
   and raises nothing. *)
C20_CsnatRebindRejected ==
    [][\A S \in SubnetIds :
        (/\ BindStep(DEVICE_OWNER_ROUTER_SNAT, S)
         /\ agent_call'.arg.vif_id \in DOMAIN local_ports
         /\ local_ports[agent_call'.arg.vif_id].subnets # {}
         /\ S \notin local_ports[agent_call'.arg.vif_id].subnets)
        => /\ flow_ops' = <<>>
           /\ ~raised'
           /\ UNCHANGED <<local_dvr_map, local_ports, int_br, tun_br>>]_vars

(* n1, recorded for s1, was bound on s2: s2 got no mapping and n1 is still
   recorded for s1. *)
C20_Witness ==
    /\ agent_call.op = "bind_port_to_dvr"
    /\ agent_call.arg.vif_id = "n1"
    /\ agent_call.arg.subnets = <<"s2">>
    /\ "n1" \in DOMAIN local_ports
    /\ local_ports["n1"].subnets = {"s1"}
    /\ "s1" \in DOMAIN local_dvr_map
    /\ local_dvr_map["s1"].csnat_ofport = VifOfport("n1")
    /\ "s2" \notin DOMAIN local_dvr_map
    /\ flow_ops = <<>>

(***************************************************************************)
(* Claims about several ports sharing a subnet (checked under              *)
(* SpecAgentShared).                                                       *)
(***************************************************************************)
(* Subnet S is dvr_owned and a router interface other than v is recorded
   for it in the port table. *)
OwnedThroughOther(S, v) ==
    /\ S \in DOMAIN local_dvr_map
    /\ local_dvr_map[S].dvr_owned
    /\ \E r \in DOMAIN local_ports :
          /\ r # v
          /\ local_ports[r].device_owner = DEVICE_OWNER_DVR_INTERFACE
          /\ S \in local_ports[r].subnets

(* The call of the step changed neither table nor any flow. *)
Abandoned ==
    /\ flow_ops' = <<>>
    /\ UNCHANGED <<local_dvr_map, local_ports, int_br, tun_br>>

(* C21: binding a router interface on a subnet that is dvr_owned through a
   distinct router interface changes neither local_dvr_map, nor the port
   table, nor the flows, whatever the subnet's csnat_ofport. *)
C21_AsStated ==
    [][\A S \in SubnetIds :
        (/\ BindStep(DEVICE_OWNER_DVR_INTERFACE, S)
         /\ OwnedThroughOther(S, agent_call'.arg.vif_id))
        => Abandoned]_vars

(* The step is a completed bind_port_to_dvr or unbind_port_from_dvr of an
   enabled agent. *)
BindOrUnbindStep ==
    /\ AgentStep("bind_port_to_dvr") \/ AgentStep("unbind_port_from_dvr")
    /\ enable_distributed_routing

(* The mapping is neither dvr_owned nor holds a CSNAT ofport. *)
Unused(ldm) == ~ldm.dvr_owned /\ ldm.csnat_ofport = OFPORT_INVALID

(* The mapping of S as the unbind of the step leaves it: disowned when the
   port unbound is a router interface, without CSNAT ofport when it is a
   centralized-SNAT port. *)
LeftAs(S) ==
    LET owner == local_ports[agent_call'.arg.vif_id].device_owner
        ldm == local_dvr_map[S]
    IN  [ldm EXCEPT
           !.dvr_owned = IF owner = DEVICE_OWNER_DVR_INTERFACE THEN FALSE
                         ELSE @,
           !.csnat_ofport = IF owner = DEVICE_OWNER_ROUTER_SNAT
                            THEN OFPORT_INVALID ELSE @]

(* C22: in a bind or unbind, a subnet's mapping is removed from
   local_dvr_map only by the unbind of a recorded port that has the subnet
   queued and leaves the mapping with dvr_owned false and csnat_ofport
   INVALID; and after every bind or unbind that completes without
   exception no mapping with dvr_owned false and csnat_ofport INVALID is
   in the table. *)
C22_RemovedOnlyWhenUnused ==
    [][BindOrUnbindStep =>
        /\ \A S \in DOMAIN local_dvr_map \ DOMAIN local_dvr_map' :
              /\ AgentStep("unbind_port_from_dvr")
              /\ agent_call'.arg.vif_id \in DOMAIN local_ports
              /\ S \in local_ports[agent_call'.arg.vif_id].subnets
              /\ Unused(LeftAs(S))
        /\ ~raised' =>
              \A S \in DOMAIN local_dvr_map' : ~Unused(local_dvr_map'[S])]_vars

(* The centralized-SNAT port n1 was unbound from s1 while no router
   interface was recorded: its flows were deleted and the mapping of s1 is
   gone. *)
C22_Witness ==
    /\ agent_call.op = "unbind_port_from_dvr"
    /\ agent_call.arg.vif_id = "n1"
    /\ flow_ops # <<>>
    /\ ~raised
    /\ "n1" \notin DOMAIN local_ports
    /\ "s1" \notin DOMAIN local_dvr_map
    /\ DOMAIN local_ports \cap RouterVifs = {}

(* C23: after unbind_port_from_dvr returns, without exception, for a vif
   that was recorded in the port table, whatever its device owner, that vif
   has no record in local_ports. *)
C23_AsStated ==
    [][(/\ AgentStep("unbind_port_from_dvr")
        /\ enable_distributed_routing
        /\ agent_call'.arg.vif_id \in DOMAIN local_ports
        /\ ~raised')
       => agent_call'.arg.vif_id \notin DOMAIN local_ports']_vars

(* C24: when bind_port_to_dvr, or unbind_port_from_dvr, runs a second time
   in a row with the same arguments and the same answers of the controller,
   the second run leaves local_dvr_map, local_ports and the flows of both
   bridges as the first run left them. *)
C24_SameEventTwice ==
    [][(/\ BindOrUnbindStep
        /\ agent_call'.repeated)
       => UNCHANGED <<local_dvr_map, local_ports, int_br, tun_br>>]_vars

(* The bind of the router interface r1 on s1, which holds a CSNAT ofport,
   ran twice in a row with c1 as local compute port: the second run plumbed
   c1 and made its bridge calls again. *)
C24_Witness ==
    /\ agent_call.op = "bind_port_to_dvr"
    /\ agent_call.repeated
    /\ agent_call.arg.vif_id = "r1"
    /\ ~raised
    /\ Len(AddsOf(flow_ops, 4)) = 1
    /\ Len(AddsOf(flow_ops, 2)) = 1
    /\ local_dvr_map["s1"].csnat_ofport # OFPORT_INVALID
    /\ "c1" \in DOMAIN local_dvr_map["s1"].compute_ports

(***************************************************************************)
(* Claims about the fixed-IP difference (checked under SpecFixedIps).      *)
(***************************************************************************)
IsUpdate(n) == n.method = "update_fdb_entries"

(* The [mac, device_owner, ip] tuples of port for the addresses of ips. *)
MacIp(port, ips) == {<<port.mac_address, port.device_owner, ip>> : ip \in ips}

(* C25: _get_diff_ips(old, new) is None when old and new have the same set
   of fixed IPs; otherwise it is the pair (old minus new, new minus old):
   the two sets are disjoint, _get_diff_ips(new, old) is the same pair
   swapped, and old's IP set without the first set and with the second is
   new's IP set.  update_port_postcommit sends no update_fdb_entries in the
   first case and, the port's agent resolving, one carrying the two sets in
   the second. *)
C25_DiffIps ==
    [][UpdateStep("p1") =>
        LET old == ports["p1"]
            new == ports'["p1"]
            diff == _get_diff_ips(old, new)
            back == _get_diff_ips(new, old)
            chg == SelectSeq(fdb_notifications', IsUpdate)
        IN  /\ IpSet(old) = IpSet(new) => (diff = None /\ chg = <<>>)
            /\ IpSet(old) # IpSet(new) =>
                  /\ diff # None
                  /\ diff.orig_ips = IpSet(old) \ IpSet(new)
                  /\ diff.port_ips = IpSet(new) \ IpSet(old)
                  /\ diff.orig_ips \cap diff.port_ips = {}
                  /\ back = [orig_ips |-> diff.port_ips,
                             port_ips |-> diff.orig_ips]
                  /\ (IpSet(old) \ diff.orig_ips) \cup diff.port_ips
                        = IpSet(new)
                  /\ old.binding_host_id = "h1" =>
                        /\ Len(chg) = 1
                        /\ chg[1].fdb_entries.chg_ip.before
                              = MacIp(new, diff.orig_ips)
                        /\ chg[1].fdb_entries.chg_ip.after
                              = MacIp(new, diff.port_ips)]_vars

(* p1 was updated from one list of fixed IPs to another, each holding an
   address the other lacks and both holding a common one: the notification
   sent names an address removed and an address added. *)
C25_Witness ==
    /\ call.op = "update_port_postcommit"
    /\ call.port = "p1"
    /\ \E i \in DOMAIN fdb_notifications :
          /\ IsUpdate(fdb_notifications[i])
          /\ fdb_notifications[i].fdb_entries.chg_ip.before # {}
          /\ fdb_notifications[i].fdb_entries.chg_ip.after # {}
          /\ \E k \in DOMAIN ports["p1"].fixed_ips :
                /\ <<ports["p1"].mac_address, ports["p1"].device_owner,
                      ports["p1"].fixed_ips[k]>>
                     \notin fdb_notifications[i].fdb_entries.chg_ip.after

(***************************************************************************)
(* Claims about the subnet-gateway lookup (checked under SpecSubnetInfo).  *)
(***************************************************************************)
(* The ports of the inventory with the gateway IP of subnet S as a fixed IP
   on S. *)
GatewayHolders(inventory, S) ==
    {port \in inventory.ports :
        \E i \in DOMAIN port.fixed_ips :
           port.fixed_ips[i] = [subnet_id |-> S,
                                ip_address |-> Subnet(S).gateway_ip]}

(* C26: get_subnet_for_dvr answers with nothing when the subnet does not
   exist or no port holds the subnet's gateway_ip as a fixed IP on it;
   otherwise it answers with the subnet's fields and with gateway_mac the
   MAC of a port whose fixed IP on the subnet is the gateway_ip.  A router
   interface bound on a subnet without local mapping stores that answer,
   and changes nothing when there is none. *)
C26_SubnetForDvr ==
    [][\A S \in SubnetIds :
        (/\ BindStep(DEVICE_OWNER_DVR_INTERFACE, S)
         /\ "inventory" \in DOMAIN agent_call'.arg)
        => LET inventory == agent_call'.arg.inventory
               answer == agent_call'.arg.subnet_answer
               holders == GatewayHolders(inventory, S)
           IN  IF S \notin inventory.subnets \/ holders = {}
               THEN /\ answer = EmptyMap
                    /\ S \notin DOMAIN local_dvr_map => Abandoned
               ELSE /\ DOMAIN answer = DOMAIN Subnet(S) \cup {"gateway_mac"}
                    /\ \A k \in DOMAIN Subnet(S) : answer[k] = Subnet(S)[k]
                    /\ answer.gateway_mac
                          \in {port.mac_address : port \in holders}
                    /\ S \notin DOMAIN local_dvr_map =>
                          /\ S \in DOMAIN local_dvr_map'
                          /\ local_dvr_map'[S].subnet = answer]_vars

(* r1 was bound on s1 against an inventory holding both subnets, the gateway
   port of s1 and a compute port on s1: the mapping of s1 holds the gateway
   port's MAC. *)
C26_Witness ==
    /\ agent_call.op = "bind_port_to_dvr"
    /\ agent_call.arg.vif_id = "r1"
    /\ "inventory" \in DOMAIN agent_call.arg
    /\ agent_call.arg.inventory.subnets = SubnetIds
    /\ agent_call.arg.inventory.ports
         = {GatewayPort("s1"), ComputePortOn("s1")}
    /\ "s1" \in DOMAIN local_dvr_map
    /\ local_dvr_map["s1"].subnet.gateway_mac
         = GatewayPort("s1").mac_address
    /\ "r1" \in DOMAIN local_ports


(* A's active-port count on the network once the delete of port p, in
   progress at the step, has committed. *)
CountOnceDeleted(p, A) ==
    get_agent_network_active_port_count(
        Inventory([ports EXCEPT ![p] = DeletedPort(p)],
                  IF p = DvrPort
                  THEN [x \in DvrHosts |-> PORT_STATUS_DOWN]
                  ELSE dvr_bindings),
        A, NetworkId)

(* C27, as stated: the teardown payload delete_port_precommit captures for
   the port's agent holds the flooding sentinel only if that agent has no
   active port on the network once the delete commits; in particular the
   delete of a port that is not ACTIVE, while the agent has one other
   active port there, captures no sentinel. *)
C27_AsStated ==
    [][\A p \in PortIds, A \in AgentHosts :
        ( /\ PrecommitStep(p)
          /\ deleting'[p] \ deleting[p] = {A}
          /\ Resolves(A, BoundSegment(A)) ) =>
            LET payload == remove_fdb_entries'[p][A]
            IN  HasSentinel(payload.ports[TunnelIp(A)]) =>
                  CountOnceDeleted(p, A) = 0]_vars


(* update_port_postcommit runs for the compute port p with a changed set of
   fixed IPs, and the agent of the port's original host resolves with the
   segment of the new binding. *)
FixedIpsChanged(p) ==
    /\ UpdateStep(p)
    /\ p # DvrPort
    /\ IpSet(ports[p]) # IpSet(ports'[p])
    /\ Resolves(ports[p].binding_host_id,
                BoundSegment(ports'[p].binding_host_id))

IsAdd(n) == n.method = "add_fdb_entries"

(* C28, as stated: an update_port_postcommit whose fixed IPs changed sends
   one update_fdb_entries scoped to the tunnel IP of the port's agent and
   nothing else, and leaves the migrated-ports map as it was, whatever the
   status and the binding host of the update. *)
C28_AsStated ==
    [][\A p \in PortIds :
        FixedIpsChanged(p) =>
          /\ Len(fdb_notifications') = 1
          /\ IsUpdate(fdb_notifications'[1])
          /\ fdb_notifications'[1].fdb_entries.chg_ip.agent_ip
               = TunnelIp(ports[p].binding_host_id)
          /\ migrated_ports' = migrated_ports]_vars

(* C28, amended: an update_port_postcommit whose fixed IPs changed sends a
   single update_fdb_entries, first of the call and scoped to the tunnel IP
   of the agent of the port's original host.  When neither the status nor
   the binding host changed in the same update it sends nothing else and
   leaves the migrated-ports map as it was.  Otherwise the migration and
   status branches are taken as well: a host change with status ACTIVE and
   no record for the port records the original port, and a status change to
   ACTIVE that is not taken as a new migration runs port-up, whose add
   follows the update_fdb_entries. *)
C28_ChgIpThenBranches ==
    [][\A p \in PortIds :
        FixedIpsChanged(p) =>
          LET old == ports[p]
              new == ports'[p]
              sent == fdb_notifications'
          IN  /\ Len(SelectSeq(sent, IsUpdate)) = 1
              /\ IsUpdate(sent[1])
              /\ sent[1].host = NoHost
              /\ sent[1].fdb_entries.chg_ip.agent_ip
                   = TunnelIp(old.binding_host_id)
              /\ (new.status = old.status
                  /\ new.binding_host_id = old.binding_host_id) =>
                    /\ Len(sent) = 1
                    /\ migrated_ports' = migrated_ports
              /\ (new.binding_host_id # old.binding_host_id
                  /\ new.status = PORT_STATUS_ACTIVE
                  /\ p \notin DOMAIN migrated_ports) =>
                    /\ Len(sent) = 1
                    /\ migrated_ports' = (p :> old) @@ migrated_ports
              /\ (PortUpRuns(p)
                  /\ Resolves(new.binding_host_id,
                              BoundSegment(new.binding_host_id))) =>
                    /\ \E i \in 2..Len(sent) : IsUntargetedAdd(sent[i])
                    /\ migrated_ports' = migrated_ports]_vars

(* p1 went ACTIVE on h1 with a changed set of fixed IPs in one update: the
   update_fdb_entries was sent first and port-up's add after it. *)
C28_Witness ==
    /\ call.op = "update_port_postcommit" /\ call.port = "p1"
    /\ ports["p1"].status = PORT_STATUS_ACTIVE
    /\ ports["p1"].binding_host_id = "h1"
    /\ Len(fdb_notifications) >= 2
    /\ IsUpdate(fdb_notifications[1])
    /\ fdb_notifications[1].fdb_entries.chg_ip.agent_ip = "172.16.0.1"
    /\ IsUntargetedAdd(fdb_notifications[Len(fdb_notifications)])


(* C29, as stated: an update_port_postcommit for the binding, on a host A
   that resolves, of the DVR-interface port with unchanged fixed IPs runs
   port-up (which sends the untargeted add) when the binding is ACTIVE and
   sends a removal, last, when it is DOWN, whatever the port's
   binding:host_id and status; and the migrated-ports map never holds a
   record for the DVR-interface port. *)
C29_AsStated ==
    [][\A A \in DvrHosts :
        ( /\ UpdateStep(DvrPort)
          /\ call'.host = A
          /\ IpSet(ports[DvrPort]) = IpSet(ports'[DvrPort])
          /\ Resolves(A, BoundSegment(A)) ) =>
            LET sent == fdb_notifications'
            IN  /\ dvr_bindings'[A] = PORT_STATUS_ACTIVE =>
                     \E i \in DOMAIN sent : IsUntargetedAdd(sent[i])
                /\ dvr_bindings'[A] = PORT_STATUS_DOWN =>
                     /\ sent # <<>>
                     /\ IsRemove(sent[Len(sent)])
                /\ DvrPort \notin DOMAIN migrated_ports']_vars


(* The payload holds a concrete [mac, device_owner, ip] entry of a
   DVR-interface port. *)
HasDvrEntry(payload) ==
    /\ payload # None
    /\ \E ip \in DOMAIN payload.ports :
          \E k \in DOMAIN payload.ports[ip] :
             LET e == payload.ports[ip][k]
             IN  e # FLOODING_ENTRY /\ e[2] = DEVICE_OWNER_DVR_INTERFACE

(* The payload has A's tunnel IP as its only key and at most flooding
   sentinels under it. *)
SentinelAtMost(payload, A) ==
    /\ DOMAIN payload.ports = {TunnelIp(A)}
    /\ \A k \in DOMAIN payload.ports[TunnelIp(A)] :
          payload.ports[TunnelIp(A)][k] = FLOODING_ENTRY

(* C30: no add_fdb_entries or remove_fdb_entries notification (bootstrap
   included) and no payload captured by delete_port_precommit holds a
   concrete [mac, device_owner, ip] entry of a DVR-interface port; the
   untargeted add or the removal sent for a binding of the DVR-interface
   port on host A, and the payload captured for its delete, hold at most
   the flooding sentinel under A's tunnel IP. *)
C30_NoDvrEntries ==
    [][/\ \A i \in DOMAIN fdb_notifications' :
            (IsAdd(fdb_notifications'[i]) \/ IsRemove(fdb_notifications'[i]))
              => ~HasDvrEntry(fdb_notifications'[i].fdb_entries)
       /\ \A p \in DOMAIN remove_fdb_entries' :
            \A h \in DOMAIN remove_fdb_entries'[p] :
               ~HasDvrEntry(remove_fdb_entries'[p][h])
       /\ \A A \in DvrHosts :
            (UpdateStep(DvrPort) /\ call'.host = A) =>
              \A i \in DOMAIN fdb_notifications' :
                 LET n == fdb_notifications'[i]
                 IN  (n.host = NoHost /\ n.fdb_entries # None
                      /\ (IsAdd(n) \/ IsRemove(n)))
                       => SentinelAtMost(n.fdb_entries, A)
       /\ \A A \in DvrHosts :
            (PrecommitStep(DvrPort) /\ deleting'[DvrPort] \ deleting[DvrPort] = {A}
             /\ remove_fdb_entries'[DvrPort][A] # None)
              => SentinelAtMost(remove_fdb_entries'[DvrPort][A], A)]_vars

(* The last active binding of the DVR-interface port on h1 went DOWN while
   h1 has no other active port: the removal sent holds the flooding
   sentinel under h1's tunnel IP and nothing else. *)
C30_Witness ==
    /\ call.op = "update_port_postcommit" /\ call.port = DvrPort
    /\ call.host = "h1"
    /\ dvr_bindings["h1"] = PORT_STATUS_DOWN
    /\ Len(fdb_notifications) = 1
    /\ IsRemove(fdb_notifications[1])
    /\ fdb_notifications[1].fdb_entries # None
    /\ fdb_notifications[1].fdb_entries.ports
         = ("172.16.0.1" :> <<FLOODING_ENTRY>>)


(***************************************************************************)
(* Claims about the agent's MAC flows after one setup (checked under       *)
(* SpecAgentMacOnce).                                                      *)
(***************************************************************************)
(* The MACs with a classification flow among the flows of the integration
   bridge, and those with a do-not-learn flow among the flows of the tunnel
   bridge. *)
ClassifiedMacs(flows) ==
    {f.match.dl_src :
        f \in {g \in flows : /\ g.table = LOCAL_SWITCHING
                             /\ g.priority = 2
                             /\ DOMAIN g.match = {"in_port", "dl_src"}
                             /\ g.match.in_port = patch_tun_ofport}}

NotLearntMacs(flows) ==
    {f.match.dl_src :
        f \in {g \in flows : /\ g.table = DVR_NOT_LEARN
                             /\ g.priority = 1
                             /\ DOMAIN g.match = {"dl_src"}}}

(* C31: once setup_dvr_flows_on_integ_tun_br has succeeded, and after every
   dvr_mac_address_update that follows, the MACs with a classification flow
   on the integration bridge, the MACs with a do-not-learn flow on the
   tunnel bridge and registered_dvr_macs are the same set, and the agent's
   own DVR MAC is not in it. *)
C31_MacSetsAgree ==
    (agent_call.op # "__init__" /\ Ready) =>
        /\ ClassifiedMacs(int_br) = registered_dvr_macs
        /\ NotLearntMacs(tun_br) = registered_dvr_macs
        /\ dvr_mac_address \notin registered_dvr_macs

(* A MAC list that drops a registered MAC and brings a new one has been
   delivered after the setup: the flows of the first were deleted and the
   three sets hold the second alone. *)
C31_Witness ==
    /\ agent_call.op = "dvr_mac_address_update"
    /\ Ready
    /\ \E old \in OtherDvrMacs, new \in OtherDvrMacs :
         /\ old # new
         /\ MacOps(flow_ops, "tun_br", "delete_flows", old) = 1
         /\ MacOps(flow_ops, "int_br", "add_flow", new) = 1
         /\ registered_dvr_macs = {new}
         /\ ClassifiedMacs(int_br) = {new}
         /\ NotLearntMacs(tun_br) = {new}


(***************************************************************************)
(* Claims about the tables and flows a bind or unbind leaves (checked      *)
(* under SpecAgentShared and SpecAgentBind).                               *)
(***************************************************************************)
(* The flows the bind of router interface v on S installs on the tunnel
   bridge: the gateway-ARP drop of S and the two own-MAC flows of v. *)
IsGatewayArpDrop(f, S) ==
    /\ f.table = DVR_PROCESS
    /\ f.match = [dl_vlan |-> LocalVlan(S), proto |-> "arp",
                  nw_dst |-> SubnetInfo(S).gateway_ip]

IsOwnMacFlow(f, S, v) ==
    /\ f.table = DVR_PROCESS
    /\ \/ f.match = [dl_vlan |-> LocalVlan(S), dl_dst |-> VifMac(v)]
       \/ f.match = [dl_vlan |-> LocalVlan(S), dl_src |-> VifMac(v)]

(* C32: when a router interface recorded for subnet S, whose mapping holds
   a valid csnat_ofport, is unbound, the mapping of S stays in the table
   with dvr_owned false, the same csnat_ofport and no compute port, no
   per-VM flow of a compute port of S is left, and the aggregate flow of S
   is installed with the CSNAT ofport as its whole output list; whether the
   csnat_ofport is valid or not, the gateway-ARP drop of S and the two
   own-MAC flows of the router port are gone from the tunnel bridge. *)
C32_AsStated ==
    [][\A S \in SubnetIds :
        (/\ UnbindStep(DEVICE_OWNER_DVR_INTERFACE, S)
         /\ S \in DOMAIN local_dvr_map)
        => LET ldm == local_dvr_map[S]
               v == agent_call'.arg.vif_id
           IN  /\ ldm.csnat_ofport # OFPORT_INVALID =>
                    /\ S \in DOMAIN local_dvr_map'
                    /\ local_dvr_map'[S] =
                         [ldm EXCEPT !.dvr_owned = FALSE,
                                     !.compute_ports = EmptyMap]
                    /\ \A f \in int_br', c \in DOMAIN ldm.compute_ports :
                          ~IsPerVmFlow(f, S, VifMac(c))
                    /\ \E f \in int_br' : IsAggregateFlow(f, S)
                    /\ \A f \in int_br' :
                          IsAggregateFlow(f, S) =>
                            OutputOf(f) = <<ldm.csnat_ofport>>
               /\ \A f \in tun_br' :
                     ~IsGatewayArpDrop(f, S) /\ ~IsOwnMacFlow(f, S, v)]_vars


(* C34: when bind_port_to_dvr asks the controller for the subnet of a
   router-interface or centralized-SNAT port (the subnet has no local
   mapping and, for a centralized-SNAT port, the vif is not in the port
   table) and the answer is empty, the bind raises nothing and changes
   neither local_dvr_map, nor local_ports, nor the flows of the bridges. *)
C34_AsStated ==
    [][\A S \in SubnetIds,
          owner \in {DEVICE_OWNER_DVR_INTERFACE, DEVICE_OWNER_ROUTER_SNAT} :
        (/\ BindStep(owner, S)
         /\ S \notin DOMAIN local_dvr_map
         /\ agent_call'.arg.vif_id \notin DOMAIN local_ports
         /\ agent_call'.arg.subnet_answer = NoSubnetInfo)
        => (~raised' /\ Abandoned)]_vars


(* The bind of the step left subnet S alone: its mapping, if any, is the
   one it was, it is queued to no record it was not queued to, and no
   flow of its CIDR was written. *)
LeftAlone(S) ==
    /\ S \in DOMAIN local_dvr_map' <=> S \in DOMAIN local_dvr_map
    /\ S \in DOMAIN local_dvr_map => local_dvr_map'[S] = local_dvr_map[S]
    /\ \A v \in DOMAIN local_ports' :
          S \in local_ports'[v].subnets =>
             (v \in DOMAIN local_ports /\ S \in local_ports[v].subnets)
    /\ \A i \in DOMAIN flow_ops' :
          "nw_dst" \in DOMAIN flow_ops'[i].match =>
             flow_ops'[i].match.nw_dst # SubnetInfo(S).cidr

NonOwnedHoldNoComputePort ==
    \A S \in DOMAIN local_dvr_map :
       ~local_dvr_map[S].dvr_owned =>
          local_dvr_map[S].compute_ports = EmptyMap

ComputeBindSkipsNonOwned ==
    [][(/\ AgentStep("bind_port_to_dvr")
        /\ enable_distributed_routing
        /\ VifOwner(agent_call'.arg.vif_id) = DEVICE_OWNER_COMPUTE
        /\ agent_call'.arg.network_type \in TUNNEL_NETWORK_TYPES)
       => LET subnets == Range(agent_call'.arg.subnets)
              skipped == {S \in subnets :
                            \/ S \notin DOMAIN local_dvr_map
                            \/ ~local_dvr_map[S].dvr_owned}
          IN  /\ \A S \in skipped : LeftAlone(S)
              /\ skipped = subnets => (~raised' /\ Abandoned)]_vars

(* C33: binding a compute port changes neither tables nor flows for any of
   its fixed-IP subnets that has no local mapping or whose mapping is not
   dvr_owned, and in every reachable state a mapping that is not dvr_owned
   has an empty compute-port map. *)
C33_ComputeOnlyInOwned ==
    /\ ComputeBindSkipsNonOwned
    /\ []NonOwnedHoldNoComputePort

(* The compute port c1, with fixed IPs on s1 and s2, has been bound while
   s1 is dvr_owned and s2 holds only a centralized-SNAT port: c1 is plumbed
   on s1 alone. *)
C33_Witness ==
    /\ agent_call.op = "bind_port_to_dvr"
    /\ agent_call.arg.vif_id = "c1"
    /\ Range(agent_call.arg.subnets) = {"s1", "s2"}
    /\ ~raised
    /\ {"s1", "s2"} \subseteq DOMAIN local_dvr_map
    /\ local_dvr_map["s1"].dvr_owned
    /\ "c1" \in DOMAIN local_dvr_map["s1"].compute_ports
    /\ ~local_dvr_map["s2"].dvr_owned
    /\ local_dvr_map["s2"].csnat_ofport # OFPORT_INVALID
    /\ local_dvr_map["s2"].compute_ports = EmptyMap
    /\ "c1" \in DOMAIN local_ports
    /\ local_ports["c1"].subnets = {"s1"}
    /\ flow_ops # <<>>


(* C35: in every state reachable by bind and unbind operations, every
   record of the port table has a non-empty subnet set; in particular the
   unbind of a router interface leaves no compute-port record with an empty
   subnet set. *)
C35_AsStated ==
    \A v \in DOMAIN local_ports : local_ports[v].subnets # {}


(* The aggregate flow of S agrees with the mapping of S: installed, with
   the CSNAT ofport (when valid) before exactly the compute ofports, when
   the mapping holds a CSNAT ofport or a compute port; absent otherwise. *)
AggregateAgrees(S) ==
    LET mapped == S \in DOMAIN local_dvr_map
        ldm == local_dvr_map[S]
        ofports == {ldm.compute_ports[c] : c \in DOMAIN ldm.compute_ports}
        AsMapped(out) ==
            IF ldm.csnat_ofport # OFPORT_INVALID
            THEN /\ Len(out) = Cardinality(ofports) + 1
                 /\ out[1] = ldm.csnat_ofport
                 /\ {out[i] : i \in 2..Len(out)} = ofports
            ELSE /\ Len(out) = Cardinality(ofports)
                 /\ Range(out) = ofports
    IN  IF mapped /\ (ldm.csnat_ofport # OFPORT_INVALID
                      \/ ldm.compute_ports # EmptyMap)
        THEN /\ \E f \in int_br : IsAggregateFlow(f, S)
             /\ \A f \in int_br :
                   IsAggregateFlow(f, S) => AsMapped(OutputOf(f))
        ELSE \A f \in int_br : ~IsAggregateFlow(f, S)

(* C36: after every completed bind or unbind, for each subnet S, the
   aggregate flow of S is installed with the csnat_ofport (first, when
   valid) followed by exactly the compute ofports of S's mapping if the
   mapping holds a valid csnat_ofport or a compute port, and no aggregate
   flow of S is installed otherwise. *)
C36_AsStated ==
    (/\ agent_call.op \in {"bind_port_to_dvr", "unbind_port_from_dvr"}
     /\ ~raised)
    => \A S \in SubnetIds : AggregateAgrees(S)


(***************************************************************************)
(* The order of a compute bind and a router-interface bind.                *)
(***************************************************************************)
(* The agent's tables and the two bridges as they are. *)
Here == [self |-> AgentSelf, int_br |-> int_br, tun_br |-> tun_br]

(* What bind_port_to_dvr for vif v on S makes of h, the controller
   answering with the subnet and with local_compute_ports. *)
AfterBind(h, v, S, local_compute_ports, vifs) ==
    LET r == bind_port_to_dvr(h.self, VifPort(v), "vxlan", FixedIps(<<S>>),
                              VifOwner(v), LocalVlan(S), SubnetInfo(S),
                              local_compute_ports, vifs)
    IN  [self |-> r.self, int_br |-> Replay(h.int_br, r.ops, "int_br"),
         tun_br |-> Replay(h.tun_br, r.ops, "tun_br")]

(* C is plumbed on S in h: S is dvr_owned and C is in its compute-port
   map. *)
PlumbedOn(h, C, S) ==
    /\ S \in DOMAIN h.self.local_dvr_map
    /\ h.self.local_dvr_map[S].dvr_owned
    /\ C \in DOMAIN h.self.local_dvr_map[S].compute_ports

Lists(local_compute_ports, C) ==
    \E i \in DOMAIN local_compute_ports : local_compute_ports[i].id = C

(* C37: the bind of a compute port C and the bind of the router interface
   on C's subnet S commute: when the controller lists C as a local compute
   port of S and C's vif is on the integration bridge, the two binds end,
   in either order, with the same local_dvr_map (S dvr_owned, C in its
   compute-port map), the same port table and the same flows. *)
C37_AsStated ==
    [][\A S \in SubnetIds, C \in ComputeVifs, r \in RouterVifs :
        /\ (/\ BindStep(DEVICE_OWNER_COMPUTE, S)
            /\ agent_call'.arg.vif_id = C)
           => \A local_compute_ports \in ComputePortLists(ComputeVifs),
                 vifs \in SUBSET ComputeVifs :
                 (Lists(local_compute_ports, C) /\ C \in vifs) =>
                   LET router_last ==
                          AfterBind(Here', r, S, local_compute_ports, vifs)
                       compute_last ==
                          AfterBind(AfterBind(Here, r, S,
                                              local_compute_ports, vifs),
                                    C, S, <<>>, {})
                   IN  /\ router_last = compute_last
                       /\ PlumbedOn(router_last, C, S)
        /\ (/\ BindStep(DEVICE_OWNER_DVR_INTERFACE, S)
            /\ agent_call'.arg.vif_id = r
            /\ agent_call'.arg.subnet_answer = SubnetInfo(S)
            /\ Lists(agent_call'.arg.local_compute_ports, C)
            /\ C \in agent_call'.arg.vifs)
           => LET compute_last == AfterBind(Here', C, S, <<>>, {})
                  router_last ==
                     AfterBind(AfterBind(Here, C, S, <<>>, {}), r, S,
                               agent_call'.arg.local_compute_ports,
                               agent_call'.arg.vifs)
              IN  /\ compute_last = router_last
                  /\ PlumbedOn(compute_last, C, S)]_vars


(* The centralized-SNAT vifs recorded in the port table with S queued. *)
CsnatRecordsOn(S) ==
    {v \in DOMAIN local_ports :
        /\ local_ports[v].device_owner = DEVICE_OWNER_ROUTER_SNAT
        /\ S \in local_ports[v].subnets}

(* C38: in every state reachable by bind and unbind operations, the
   csnat_ofport of a subnet's mapping is valid if and only if the port
   table holds a centralized-SNAT record with that subnet queued, and it
   is then that record's ofport; the unbind of one centralized-SNAT port
   never invalidates the csnat_ofport of a subnet on which another one is
   still recorded. *)
C38_AsStated ==
    \A S \in DOMAIN local_dvr_map :
       LET csnat_ofport == local_dvr_map[S].csnat_ofport
       IN  /\ csnat_ofport # OFPORT_INVALID <=> CsnatRecordsOn(S) # {}
           /\ csnat_ofport # OFPORT_INVALID =>
                \E v \in CsnatRecordsOn(S) :
                   local_ports[v].ofport = csnat_ofport


(***************************************************************************)
(* The caller that loses the insert race (checked under SpecMac).          *)
(***************************************************************************)
(* C39: when two get_dvr_mac_address_by_host calls for the same host that
   has no binding run concurrently, exactly one of them inserts the row
   and both return the stored MAC: the call that loses the insert race
   (a concurrent call inserted the host's row, which no delete removed)
   does not end with MacAddressGenerationFailure, and it returns the MAC
   of the row. *)
C39_AsStated ==
    [][\A c \in Callers :
        (/\ pc[c] = "create"
         /\ obs[c].rival_live
         /\ Found(host[c])
         /\ completed'.caller = c
         /\ completed'.outcome # "none")
        => /\ completed'.outcome = "returned"
           /\ completed'.result = FoundMac(host[c])
           /\ ~completed'.inserted]_vars


(***************************************************************************)
(* The record a migration teardown uses (checked under SpecMigrations).    *)
(***************************************************************************)
(* C40: whenever a migration teardown removal is sent at a port's
   transition to BUILD, its payload is built from the port's binding on the
   host it was bound to immediately before its most recent host change: a
   record left over from an earlier migration is never the one used. *)
C40_AsStated ==
    [][\A p \in PortIds :
        (BuildStep(p) /\ p \in DOMAIN migrated_ports) =>
          LET removes == SelectSeq(fdb_notifications', IsRemove)
              before == HostBefore(p)'
          IN  /\ migrated_ports[p].binding_host_id = before
              /\ \A i \in DOMAIN removes :
                    removes[i].fdb_entries # None =>
                       DOMAIN removes[i].fdb_entries.ports
                          = {TunnelIp(before)}]_vars

====
